---- MODULE Spec2Model ----
(***************************************************************************)
(* Model of django-qlab: the dynamic query layer (src/qlab).                *)
(*                                                                          *)
(* Strings of the program are sequences of one-character strings, so that   *)
(* str.replace, str.split, str.startswith, str.lower and the lookup regex   *)
(* are computed character by character, as the code computes them.          *)
(***************************************************************************)
EXTENDS Integers, Sequences, FiniteSets, TLC

VARIABLES
    settings,   \* qlab_settings: the merged QLAB_DEFAULTS / QLAB_SETTINGS
    nrows,      \* the data store: number of rows of the Backup table
    pc,         \* position of the request being served
    request,    \* request.data of the call being served
    response,   \* what the caller gets back
    errors,     \* the `errors` list of QueryFilter.validate_fields
    queried,    \* number of queries the view ran against the data store
    probe,      \* arguments and results of a directly called helper
    stack       \* the calls of extract_field_metadata in progress, root first

vars == <<settings, nrows, pc, request, response, errors, queried, probe, stack>>

----------------------------------------------------------------------------
(* Python str operations *)

Min(S) == CHOOSE x \in S : \A y \in S : x <= y

StartsWith(s, p) == Len(p) <= Len(s) /\ SubSeq(s, 1, Len(p)) = p

\* positions where sub occurs in s
Occurrences(s, sub) ==
    {i \in 1..(Len(s) - Len(sub) + 1) : SubSeq(s, i, i + Len(sub) - 1) = sub}

\* `sub in s`
Contains(s, sub) == Occurrences(s, sub) # {}

\* s.split(sep, 1) for a string that contains sep
SplitOnce(s, sep) ==
    LET i == Min(Occurrences(s, sep))
    IN  <<SubSeq(s, 1, i - 1), SubSeq(s, i + Len(sep), Len(s))>>

\* s.replace(old, new): leftmost non-overlapping occurrences, old non-empty
RECURSIVE Replace(_, _, _)
Replace(s, old, new) ==
    IF s = <<>> THEN <<>>
    ELSE IF StartsWith(s, old)
         THEN new \o Replace(SubSeq(s, Len(old) + 1, Len(s)), old, new)
         ELSE <<Head(s)>> \o Replace(Tail(s), old, new)

UpperLetters ==
    {"A", "B", "E", "F", "H", "J", "L", "N", "P", "R", "S", "T", "U", "Z"}
LowerLetters ==
    {"a", "b", "c", "d", "e", "f", "g", "h", "i", "j", "k", "l", "m",
     "n", "o", "p", "q", "r", "s", "t", "u", "v", "w", "x", "y", "z"}
Digits == {"0", "1", "2", "3", "4", "5", "6", "7", "8", "9"}

LowerChar(c) ==
    CASE c = "A" -> "a" [] c = "B" -> "b" [] c = "E" -> "e" [] c = "F" -> "f"
      [] c = "H" -> "h" [] c = "J" -> "j" [] c = "L" -> "l" [] c = "N" -> "n"
      [] c = "P" -> "p" [] c = "R" -> "r" [] c = "S" -> "s" [] c = "T" -> "t"
      [] c = "U" -> "u" [] c = "Z" -> "z"
      [] OTHER -> c

\* s.lower()
Lower(s) == [i \in DOMAIN s |-> LowerChar(s[i])]

----------------------------------------------------------------------------
(* The strings the model uses *)

str_id == <<"i", "d">>
str_name == <<"n", "a", "m", "e">>
str_job == <<"j", "o", "b">>
str_backup == <<"b", "a", "c", "k", "u", "p">>
str_backup_size == <<"b", "a", "c", "k", "u", "p", "_", "s", "i", "z", "e">>
str_backup_job == <<"b", "a", "c", "k", "u", "p", "_", "j", "o", "b">>
str_core == <<"c", "o", "r", "e">>
str_other == <<"o", "t", "h", "e", "r">>
str_Backup == <<"B", "a", "c", "k", "u", "p">>
str_BackupJob == <<"B", "a", "c", "k", "u", "p", "J", "o", "b">>
str_Audit == <<"A", "u", "d", "i", "t">>
str_Nope == <<"N", "o", "p", "e">>
sep == <<"_", "_">>

\* the names of the models and fields of the inventory part of the schema
Name ==
    [host |-> <<"h", "o", "s", "t">>,
     owned |-> <<"o", "w", "n", "e", "d">>,
     spares |-> <<"s", "p", "a", "r", "e", "s">>,
     site |-> <<"s", "i", "t", "e">>,
     spare |-> <<"s", "p", "a", "r", "e">>,
     parent |-> <<"p", "a", "r", "e", "n", "t">>,
     profile |-> <<"p", "r", "o", "f", "i", "l", "e">>,
     tags |-> <<"t", "a", "g", "s">>,
     email |-> <<"e", "m", "a", "i", "l">>,
     address |-> <<"a", "d", "d", "r", "e", "s", "s">>,
     uptime |-> <<"u", "p", "t", "i", "m", "e">>,
     ports |-> <<"p", "o", "r", "t", "s">>,
     owner |-> <<"o", "w", "n", "e", "r">>,
     region |-> <<"r", "e", "g", "i", "o", "n">>,
     zone |-> <<"z", "o", "n", "e">>,
     url |-> <<"u", "r", "l">>,
     avatar |-> <<"a", "v", "a", "t", "a", "r">>,
     created |-> <<"c", "r", "e", "a", "t", "e", "d">>,
     slug |-> <<"s", "l", "u", "g">>,
     rank |-> <<"r", "a", "n", "k">>,
     Host |-> <<"H", "o", "s", "t">>,
     Site |-> <<"S", "i", "t", "e">>,
     Region |-> <<"R", "e", "g", "i", "o", "n">>,
     Zone |-> <<"Z", "o", "n", "e">>,
     Profile |-> <<"P", "r", "o", "f", "i", "l", "e">>,
     Tag |-> <<"T", "a", "g">>]

----------------------------------------------------------------------------
(* django.db.models field classes: the part of the class hierarchy that    *)
(* isinstance() consults in helpers.py                                      *)

FieldBase(cls) ==
    CASE cls \in {"EmailField", "URLField", "SlugField"} -> "CharField"
      [] cls \in {"BigIntegerField", "SmallIntegerField",
                  "PositiveIntegerField", "AutoField"} -> "IntegerField"
      [] cls \in {"PositiveBigIntegerField", "BigAutoField"} -> "BigIntegerField"
      [] cls \in {"PositiveSmallIntegerField", "SmallAutoField"} -> "SmallIntegerField"
      [] cls = "DateTimeField" -> "DateField"
      [] cls = "OneToOneField" -> "ForeignKey"
      [] cls = "ImageField" -> "FileField"
      [] OTHER -> "Field"

FieldClasses ==
    {"CharField", "TextField", "EmailField", "URLField", "SlugField",
     "FilePathField", "GenericIPAddressField", "IntegerField",
     "BigIntegerField", "SmallIntegerField", "PositiveIntegerField",
     "PositiveBigIntegerField", "PositiveSmallIntegerField", "AutoField",
     "BigAutoField", "SmallAutoField", "FloatField", "DecimalField",
     "BooleanField", "DateField", "DateTimeField", "TimeField",
     "DurationField", "BinaryField", "ForeignKey", "OneToOneField",
     "ManyToManyField", "UUIDField", "JSONField", "FileField", "ImageField",
     "ManyToOneRel", "ManyToManyRel", "OneToOneRel"}

\* isinstance(field, base)
RECURSIVE IsInstance(_, _)
IsInstance(cls, base) ==
    \/ cls = base
    \/ cls # "Field" /\ IsInstance(FieldBase(cls), base)

----------------------------------------------------------------------------
(* Type-operation policy *)

\* Condition.validate_op: the operation tags a Condition may carry
allowed_ops == <<"is", "is_not", "lt", "lte", "gt", "gte", "icontains">>

TextOps == <<"is", "is_not", "icontains">>
CompareOps == <<"is", "is_not", "lt", "lte", "gt", "gte">>
EqualityOps == <<"is", "is_not">>

\* FIELD_OPS of get_allowed_operations, in dict order
AllowedFieldOps ==
    << <<"CharField", TextOps>>, <<"TextField", TextOps>>,
       <<"EmailField", TextOps>>, <<"SlugField", TextOps>>,
       <<"URLField", TextOps>>, <<"FilePathField", TextOps>>,
       <<"GenericIPAddressField", TextOps>>,
       <<"IntegerField", CompareOps>>, <<"FloatField", CompareOps>>,
       <<"DecimalField", CompareOps>>, <<"PositiveIntegerField", CompareOps>>,
       <<"BigIntegerField", CompareOps>>, <<"SmallIntegerField", CompareOps>>,
       <<"BooleanField", EqualityOps>>,
       <<"DateField", CompareOps>>, <<"DateTimeField", CompareOps>>,
       <<"TimeField", CompareOps>>,
       <<"ForeignKey", EqualityOps>>, <<"OneToOneField", EqualityOps>>,
       <<"ManyToManyField", TextOps>>,
       <<"UUIDField", TextOps>>, <<"JSONField", TextOps>>,
       <<"FileField", EqualityOps>>, <<"ImageField", EqualityOps>> >>

\* get_allowed_operations(field): the list of the first entry the field is
\* an instance of, [] when there is none
get_allowed_operations(cls) ==
    LET hits == {i \in DOMAIN AllowedFieldOps :
                    IsInstance(cls, AllowedFieldOps[i][1])}
    IN  IF hits = {} THEN <<>> ELSE AllowedFieldOps[Min(hits)][2]

\* FIELD_OPS of check_attribute_operation, in dict order
CheckedFieldOps ==
    << <<"CharField", {"is", "is_not", "icontains", "iexact", "startswith", "endswith"}>>,
       <<"TextField", {"is", "is_not", "icontains", "iexact", "startswith", "endswith"}>>,
       <<"EmailField", {"is", "is_not", "icontains", "iexact"}>>,
       <<"SlugField", {"is", "is_not", "icontains", "iexact"}>>,
       <<"URLField", {"is", "is_not", "icontains", "iexact"}>>,
       <<"FilePathField", {"is", "is_not", "icontains"}>>,
       <<"GenericIPAddressField", {"is", "is_not", "icontains", "iexact"}>>,
       <<"IntegerField", {"is", "is_not", "lt", "lte", "gt", "gte"}>>,
       <<"FloatField", {"is", "is_not", "lt", "lte", "gt", "gte"}>>,
       <<"DecimalField", {"is", "is_not", "lt", "lte", "gt", "gte"}>>,
       <<"PositiveIntegerField", {"is", "is_not", "lt", "lte", "gt", "gte"}>>,
       <<"BigIntegerField", {"is", "is_not", "lt", "lte", "gt", "gte"}>>,
       <<"SmallIntegerField", {"is", "is_not", "lt", "lte", "gt", "gte"}>>,
       <<"BooleanField", {"is", "is_not"}>>,
       <<"DateField", {"is", "is_not", "lt", "lte", "gt", "gte"}>>,
       <<"DateTimeField", {"is", "is_not", "lt", "lte", "gt", "gte"}>>,
       <<"TimeField", {"is", "is_not", "lt", "lte", "gt", "gte"}>>,
       <<"ForeignKey", {"is", "is_not"}>>,
       <<"OneToOneField", {"is", "is_not"}>>,
       <<"ManyToManyField", {"is", "is_not", "icontains"}>>,
       <<"UUIDField", {"is", "is_not", "icontains", "iexact"}>>,
       <<"JSONField", {"is", "is_not", "icontains"}>>,
       <<"FileField", {"is", "is_not"}>>,
       <<"ImageField", {"is", "is_not"}>> >>

\* the loop with type(field) is field_class where the code tests
\* isinstance(field, field_class)
OperationAllowedExactClass(cls, op) ==
    \E i \in DOMAIN CheckedFieldOps :
        cls = CheckedFieldOps[i][1] /\ op \in CheckedFieldOps[i][2]

\* The loop that ends check_attribute_operation: True as soon as some entry
\* the field is an instance of lists the operation
OperationAllowed(cls, op) ==
    \E i \in DOMAIN CheckedFieldOps :
        IsInstance(cls, CheckedFieldOps[i][1]) /\ op \in CheckedFieldOps[i][2]

----------------------------------------------------------------------------
(* The schema the program introspects: the installed apps and their models *)

\* a field: for a relation the model it leads to, for the reverse side of a
\* relation also the name of the foreign key it is the reverse of
Field(name, cls, related_model, remote_name, auto_created) ==
    [name |-> name, cls |-> cls, related_model |-> related_model,
     remote_name |-> remote_name, auto_created |-> auto_created]

\* apps.get_app_configs() / app_config.get_models(), in installation order
InstalledModels ==
    <<"core.Backup", "core.BackupJob", "other.Audit", "core.Host", "core.Site",
      "core.Region", "core.Zone", "core.Profile", "core.Tag">>

ModelIds == {InstalledModels[i] : i \in DOMAIN InstalledModels}

\* model._meta.app_label and model.__name__
ModelMeta(model) ==
    CASE model = "core.Backup" -> [app_label |-> str_core, name |-> str_Backup]
      [] model = "core.BackupJob" -> [app_label |-> str_core, name |-> str_BackupJob]
      [] model = "other.Audit" -> [app_label |-> str_other, name |-> str_Audit]
      [] model = "core.Host" -> [app_label |-> str_core, name |-> Name.Host]
      [] model = "core.Site" -> [app_label |-> str_core, name |-> Name.Site]
      [] model = "core.Region" -> [app_label |-> str_core, name |-> Name.Region]
      [] model = "core.Zone" -> [app_label |-> str_core, name |-> Name.Zone]
      [] model = "core.Profile" -> [app_label |-> str_core, name |-> Name.Profile]
      [] model = "core.Tag" -> [app_label |-> str_core, name |-> Name.Tag]

\* model._meta.get_fields(): reverse relations first, then the local fields.
\* The primary key Django adds by itself and the reverse side of a relation
\* are auto_created.
get_fields(model) ==
    CASE model = "core.Backup" ->
            << Field(str_id, "BigAutoField", "", <<>>, TRUE),
               Field(str_name, "CharField", "", <<>>, FALSE),
               Field(str_backup_size, "BigIntegerField", "", <<>>, FALSE),
               Field(str_backup_job, "ForeignKey", "core.BackupJob", <<>>, FALSE) >>
      [] model = "core.BackupJob" ->
            << Field(str_backup, "ManyToOneRel", "core.Backup", str_backup_job, TRUE),
               Field(str_id, "BigAutoField", "", <<>>, TRUE),
               Field(str_name, "CharField", "", <<>>, FALSE) >>
      [] model = "other.Audit" ->
            << Field(str_id, "BigAutoField", "", <<>>, TRUE),
               Field(str_name, "CharField", "", <<>>, FALSE) >>
      [] model = "core.Host" ->
            << Field(Name.host, "ManyToOneRel", "core.Host", Name.parent, TRUE),
               Field(Name.owned, "ManyToOneRel", "core.Site", Name.owner, TRUE),
               Field(str_id, "BigAutoField", "", <<>>, TRUE),
               Field(str_name, "CharField", "", <<>>, FALSE),
               Field(Name.email, "EmailField", "", <<>>, FALSE),
               Field(Name.address, "GenericIPAddressField", "", <<>>, FALSE),
               Field(Name.uptime, "DurationField", "", <<>>, FALSE),
               Field(Name.ports, "PositiveIntegerField", "", <<>>, FALSE),
               Field(Name.site, "ForeignKey", "core.Site", <<>>, FALSE),
               Field(Name.spare, "ForeignKey", "core.Site", <<>>, FALSE),
               Field(Name.parent, "ForeignKey", "core.Host", <<>>, FALSE),
               Field(Name.profile, "OneToOneField", "core.Profile", <<>>, FALSE),
               Field(Name.tags, "ManyToManyField", "core.Tag", <<>>, FALSE) >>
      [] model = "core.Site" ->
            << Field(Name.host, "ManyToOneRel", "core.Host", Name.site, TRUE),
               Field(Name.spares, "ManyToOneRel", "core.Host", Name.spare, TRUE),
               Field(str_id, "BigAutoField", "", <<>>, TRUE),
               Field(str_name, "CharField", "", <<>>, FALSE),
               Field(Name.owner, "ForeignKey", "core.Host", <<>>, FALSE),
               Field(Name.region, "ForeignKey", "core.Region", <<>>, FALSE) >>
      [] model = "core.Region" ->
            << Field(Name.site, "ManyToOneRel", "core.Site", Name.region, TRUE),
               Field(str_id, "BigAutoField", "", <<>>, TRUE),
               Field(str_name, "CharField", "", <<>>, FALSE),
               Field(Name.zone, "ForeignKey", "core.Zone", <<>>, FALSE) >>
      [] model = "core.Zone" ->
            << Field(Name.region, "ManyToOneRel", "core.Region", Name.zone, TRUE),
               Field(str_id, "BigAutoField", "", <<>>, TRUE),
               Field(str_name, "CharField", "", <<>>, FALSE) >>
      [] model = "core.Profile" ->
            << Field(Name.host, "OneToOneRel", "core.Host", Name.profile, TRUE),
               Field(str_id, "BigAutoField", "", <<>>, TRUE),
               Field(Name.url, "URLField", "", <<>>, FALSE),
               Field(Name.avatar, "ImageField", "", <<>>, FALSE),
               Field(Name.created, "DateTimeField", "", <<>>, FALSE) >>
      [] model = "core.Tag" ->
            << Field(Name.host, "ManyToManyRel", "core.Host", Name.tags, TRUE),
               Field(str_id, "BigAutoField", "", <<>>, TRUE),
               Field(Name.slug, "SlugField", "", <<>>, FALSE),
               Field(Name.rank, "SmallIntegerField", "", <<>>, FALSE) >>

FieldsOf(model) == {get_fields(model)[i] : i \in DOMAIN get_fields(model)}

\* model._meta.get_field(field_name): the field of that name, or
\* FieldDoesNotExist; a name holding a relation path is no field name
get_field(model, field_name) ==
    LET hits == {f \in FieldsOf(model) : f.name = field_name}
    IN  IF hits = {}
        THEN [raised |-> "FieldDoesNotExist", field |-> Field(<<>>, "Field", "", <<>>, FALSE)]
        ELSE [raised |-> "", field |-> CHOOSE f \in hits : TRUE]

\* model_exists(model_name): the first installed model whose name matches
\* case-insensitively, in any app; <<>> stands for None
model_exists(model_name) ==
    LET hits == {i \in DOMAIN InstalledModels :
                    Lower(ModelMeta(InstalledModels[i]).name) = Lower(model_name)}
    IN  IF hits = {} THEN <<>> ELSE <<InstalledModels[Min(hits)]>>

\* apps.get_model(app_label, model_name): the model of that app whose
\* lower-cased name is model_name.lower(), or LookupError
get_model(app_label, model_name) ==
    LET hits == {m \in ModelIds :
                    /\ ModelMeta(m).app_label = app_label
                    /\ Lower(ModelMeta(m).name) = Lower(model_name)}
    IN  IF hits = {}
        THEN [raised |-> "LookupError", model |-> ""]
        ELSE [raised |-> "", model |-> CHOOSE m \in hits : TRUE]

\* check_attribute_operation that returns True for every operation
check_attribute_any_operation(model, field_name, op) ==
    [raised |-> get_field(model, field_name).raised, value |-> TRUE]

\* check_attribute_operation(model, field_name, op)
check_attribute_operation(model, field_name, op) ==
    LET got == get_field(model, field_name)
    IN  IF got.raised # ""
        THEN [raised |-> got.raised, value |-> FALSE]
        ELSE [raised |-> "", value |-> OperationAllowed(got.field.cls, op)]

----------------------------------------------------------------------------
(* Field metadata *)

\* type_mapping of get_field_type_name, in dict order
type_mapping ==
    << <<"CharField", "string">>, <<"TextField", "text">>,
       <<"EmailField", "email">>, <<"URLField", "url">>, <<"SlugField", "slug">>,
       <<"IntegerField", "integer">>, <<"BigIntegerField", "bigint">>,
       <<"SmallIntegerField", "smallint">>,
       <<"PositiveIntegerField", "positiveint">>,
       <<"FloatField", "float">>, <<"DecimalField", "decimal">>,
       <<"BooleanField", "boolean">>,
       <<"DateField", "date">>, <<"DateTimeField", "datetime">>,
       <<"TimeField", "time">>,
       <<"ForeignKey", "foreignkey">>, <<"OneToOneField", "onetoone">>,
       <<"ManyToManyField", "manytomany">>,
       <<"UUIDField", "uuid">>, <<"JSONField", "json">>,
       <<"FileField", "file">>, <<"ImageField", "image">> >>

\* get_field_type_name(field): the name of the first entry the field is an
\* instance of, "unknown" when there is none
get_field_type_name(cls) ==
    LET hits == {i \in DOMAIN type_mapping : IsInstance(cls, type_mapping[i][1])}
    IN  IF hits = {} THEN "unknown" ELSE type_mapping[Min(hits)][2]

\* isinstance(field, (models.ForeignKey, models.OneToOneField,
\* models.ManyToManyField))
IsForwardRelation(cls) ==
    \/ IsInstance(cls, "ForeignKey") \/ IsInstance(cls, "OneToOneField")
    \/ IsInstance(cls, "ManyToManyField")

\* field_info of extract_field_metadata: name, type, allowed_operations and,
\* for a relation, related_model (label, required, max_length and choices
\* are left out)
field_info(field, full_field_path) ==
    [name |-> full_field_path,
     type |-> get_field_type_name(field.cls),
     allowed_operations |-> get_allowed_operations(field.cls),
     related_model |-> IF IsForwardRelation(field.cls)
                       THEN ModelMeta(field.related_model).name ELSE <<>>]

----------------------------------------------------------------------------
(* Structured errors *)

\* one error dictionary; loc is the tuple of its parts, msg keeps the
\* template of the text and the strings it quotes
Error(loc, text, arg1, arg2, type) ==
    [loc |-> loc, msg |-> [text |-> text, arg1 |-> arg1, arg2 |-> arg2],
     type |-> type]

----------------------------------------------------------------------------
(* Field path validation *)

IsIdentStart(c) == c \in UpperLetters \cup LowerLetters \cup {"_"}
IsIdentChar(c) == IsIdentStart(c) \/ c \in Digits

\* [A-Za-z_][A-Za-z0-9_]*
Segment(s) ==
    /\ Len(s) >= 1
    /\ IsIdentStart(s[1])
    /\ \A i \in 2..Len(s) : IsIdentChar(s[i])

\* (__[A-Za-z_][A-Za-z0-9_]*)*
RECURSIVE Groups(_)
Groups(s) ==
    \/ s = <<>>
    \/ \E k \in 3..Len(s) :
          /\ SubSeq(s, 1, 2) = sep
          /\ Segment(SubSeq(s, 3, k))
          /\ Groups(SubSeq(s, k + 1, Len(s)))

\* re.match(r'^[A-Za-z_][A-Za-z0-9_]*(__[A-Za-z_][A-Za-z0-9_]*)*$', lookup)
is_valid_lookup_syntax(lookup) ==
    \E k \in 1..Len(lookup) :
        /\ Segment(SubSeq(lookup, 1, k))
        /\ Groups(SubSeq(lookup, k + 1, Len(lookup)))

\* the test with type(related_field) in (ForeignKey, ManyToManyField)
is_exactly_relation_field(cls) == cls \in {"ForeignKey", "ManyToManyField"}

\* isinstance(related_field, (ForeignKey, ManyToManyField))
is_relation_field(cls) ==
    IsInstance(cls, "ForeignKey") \/ IsInstance(cls, "ManyToManyField")

\* validate_field_path(model, field_path, errors): the returned boolean and
\* the errors list as the call leaves it
RECURSIVE validate_field_path(_, _, _)
validate_field_path(model, field_path, errs) ==
    IF ~Contains(field_path, sep)
    THEN IF \A f \in FieldsOf(model) : f.name # field_path
         THEN LET suggested == Replace(field_path, <<"_">>, sep)
              IN  IF \E f \in FieldsOf(model) : StartsWith(suggested, f.name \o sep)
                  THEN [ok |-> FALSE,
                        errors |-> Append(errs,
                            Error(<< <<"field">> >>, "Field does not exist. Did you mean?",
                                  field_path, suggested, "value_error"))]
                  ELSE [ok |-> FALSE,
                        errors |-> Append(errs,
                            Error(<< <<"field">> >>, "Field does not exist in model",
                                  field_path, ModelMeta(model).name, "value_error"))]
         ELSE [ok |-> TRUE, errors |-> errs]
    ELSE LET related_name == SplitOnce(field_path, sep)[1]
             remaining_path == SplitOnce(field_path, sep)[2]
             got == get_field(model, related_name)
         IN  IF got.raised # ""
             THEN [ok |-> FALSE,
                   errors |-> Append(errs,
                       Error(<< <<"field">> >>, "Field does not exist in model",
                             related_name, ModelMeta(model).name, "value_error"))]
             ELSE IF ~is_relation_field(got.field.cls)
             THEN [ok |-> FALSE,
                   errors |-> Append(errs,
                       Error(<< <<"field">> >>, "Field is not a relation field in model",
                             related_name, ModelMeta(model).name, "value_error"))]
             ELSE validate_field_path(got.field.related_model, remaining_path, errs)

\* _validate_field that returns a list with the errors of this call only
_validate_field_alone(model, field, errs) ==
    IF ~is_valid_lookup_syntax(field)
    THEN [ok |-> FALSE,
          errors |-> << Error(<< <<"field">> >>, "Field syntax is incorrect", field,
                              <<>>, "syntax_error") >>]
    ELSE validate_field_path(model, field, <<>>)

\* QueryFilter._validate_field(model, field, errors)
_validate_field(model, field, errs) ==
    IF ~is_valid_lookup_syntax(field)
    THEN [ok |-> FALSE,
          errors |-> Append(errs,
              Error(<< <<"field">> >>, "Field syntax is incorrect", field, <<>>,
                    "syntax_error"))]
    ELSE validate_field_path(model, field, errs)

----------------------------------------------------------------------------
(* Condition and Filter (model_validation.py)                               *)
(* A group that is None and a group that is [] behave alike in every use    *)
(* (`if filter_obj.and_operation`, `getattr(...) or []`): both are <<>>.    *)

Condition(field, op, value) ==
    [kind |-> "Condition", field |-> field, op |-> op, value |-> value]

Filter(and_operation, or_operation, not_operation) ==
    [kind |-> "Filter", and_operation |-> and_operation,
     or_operation |-> or_operation, not_operation |-> not_operation]

\* filter_fields = None
NoFilter == [kind |-> "None"]

StrV(s) == [t |-> "str", v |-> s]
BoolV(b) == [t |-> "bool", v |-> b]
IntV(n) == [t |-> "int", v |-> n]

str_true == <<"t", "r", "u", "e">>
str_True == <<"T", "r", "u", "e">>
str_false == <<"f", "a", "l", "s", "e">>
str_False == <<"F", "a", "l", "s", "e">>

Range(s) == {s[i] : i \in DOMAIN s}

\* validate_value that compares value.lower() with "true" and "false"
validate_value_any_case(value) ==
    IF Lower(value) = str_true THEN BoolV(TRUE)
    ELSE IF Lower(value) = str_false THEN BoolV(FALSE)
    ELSE StrV(value)

\* Condition.validate_value
validate_value(value) ==
    IF value \in {str_true, str_True} THEN BoolV(TRUE)
    ELSE IF value \in {str_false, str_False} THEN BoolV(FALSE)
    ELSE StrV(value)

\* Condition.validate_op raises for some Condition of the tree
RECURSIVE HasInvalidOp(_)
HasInvalidOp(f) ==
    \E items \in {f.and_operation, f.or_operation, f.not_operation} :
        \E i \in DOMAIN items :
            IF items[i].kind = "Filter"
            THEN HasInvalidOp(items[i])
            ELSE items[i].op \notin Range(allowed_ops)

\* the Filter pydantic builds from the request's filter_fields: every
\* Condition with its value passed through validate_value
RECURSIVE Validated(_)
Validated(f) ==
    LET Each(items) ==
            [i \in DOMAIN items |->
                IF items[i].kind = "Filter"
                THEN Validated(items[i])
                ELSE Condition(items[i].field, items[i].op,
                               validate_value(items[i].value))]
    IN  Filter(Each(f.and_operation), Each(f.or_operation), Each(f.not_operation))

\* a flattening that takes the conditions of each group first and the
\* nested Filters of the group after them
RECURSIVE flatten_conditions_first(_)
flatten_conditions_first(filter_obj) ==
    LET RECURSIVE Own(_)
        Own(items) ==
            IF items = <<>> THEN <<>>
            ELSE (IF Head(items).kind = "Filter" THEN <<>> ELSE <<Head(items)>>)
                    \o Own(Tail(items))
        RECURSIVE Nested(_)
        Nested(items) ==
            IF items = <<>> THEN <<>>
            ELSE (IF Head(items).kind = "Filter"
                  THEN flatten_conditions_first(Head(items)) ELSE <<>>)
                    \o Nested(Tail(items))
        Group(items) == Own(items) \o Nested(items)
    IN  Group(filter_obj.and_operation) \o Group(filter_obj.or_operation)
            \o Group(filter_obj.not_operation)

\* flatten_filter_conditions(filter_obj)
RECURSIVE flatten_filter_conditions(_)
flatten_filter_conditions(filter_obj) ==
    LET RECURSIVE Items(_)
        Items(items) ==
            IF items = <<>> THEN <<>>
            ELSE (IF Head(items).kind = "Filter"
                  THEN flatten_filter_conditions(Head(items))
                  ELSE <<Head(items)>>) \o Items(Tail(items))
    IN  Items(filter_obj.and_operation) \o Items(filter_obj.or_operation)
            \o Items(filter_obj.not_operation)

----------------------------------------------------------------------------
(* QueryFilter (pydantic_filters.py)                                        *)
(* An exception of a validator that is neither ValueError nor AssertionError *)
(* leaves pydantic at once: `raised` names the exception that ends a call.  *)

\* the select-field loop of validate_fields
RECURSIVE ValidateSelect(_, _, _)
ValidateSelect(model, select_fields, errs) ==
    IF select_fields = <<>> THEN errs
    ELSE ValidateSelect(model, Tail(select_fields),
                        _validate_field(model, Head(select_fields), errs).errors)

\* the filter-condition loop of validate_fields
RECURSIVE ValidateConditions(_, _, _)
ValidateConditions(model, conds, errs) ==
    IF conds = <<>> THEN [raised |-> "", errors |-> errs]
    ELSE LET cond == Head(conds)
             valid_field == _validate_field(model, cond.field, errs)
             allowed == check_attribute_operation(model, cond.field, cond.op)
         IN  IF ~valid_field.ok
             THEN ValidateConditions(model, Tail(conds), valid_field.errors)
             ELSE IF allowed.raised # ""
             THEN [raised |-> allowed.raised, errors |-> valid_field.errors]
             ELSE IF ~allowed.value
             THEN ValidateConditions(model, Tail(conds),
                      Append(valid_field.errors,
                          Error(<< <<"filter_fields">>, cond.field >>,
                                "Operation is not allowed for field",
                                cond.field, <<cond.op>>, "operation_not_allowed")))
             ELSE ValidateConditions(model, Tail(conds), valid_field.errors)

\* the errors validate_fields has collected when its loops end, for the
\* model apps.get_model returned: those of select_fields, then those of the
\* conditions of filter_fields
Collected(got, self) ==
    IF got.raised # "" THEN [raised |-> got.raised, errors |-> <<>>]
    ELSE ValidateConditions(got.model,
            IF self.filter_fields.kind = "Filter"
            THEN flatten_filter_conditions(self.filter_fields) ELSE <<>>,
            ValidateSelect(got.model, self.select_fields, <<>>))

\* validate_fields that returns the errors it collected where lines 210-211
\* raise them
validate_fields_returning(self) ==
    Collected(get_model(IF self.app_label # <<>> THEN self.app_label
                        ELSE settings.DEFAULT_APP_LABEL, self.model), self)

\* QueryFilter.validate_fields(self)
validate_fields(self) ==
    LET app_label == IF self.app_label # <<>> THEN self.app_label
                     ELSE settings.DEFAULT_APP_LABEL
        Raise(checked) ==
            IF checked.raised = "" /\ checked.errors # <<>>
            THEN [raised |-> "ValidationError", errors |-> checked.errors]
            ELSE checked
    IN  Raise(Collected(get_model(app_label, self.model), self))

\* QueryFilter(model=..., select_fields=..., filter_fields=..., page=...,
\* app_label=...): the fields are validated in the order the class declares
\* them (model, select_fields, filter_fields, page, app_label), then
\* validate_fields runs
QueryFilter(model, select_fields, filter_fields, page, app_label) ==
    LET self == [model |-> model, select_fields |-> select_fields,
                 filter_fields |-> IF filter_fields.kind = "Filter"
                                   THEN Validated(filter_fields) ELSE NoFilter,
                 page |-> page, app_label |-> app_label]
        Rejected(error) ==
            [raised |-> "ValidationError", collected |-> <<>>, errors |-> <<error>>]
        After(checked) ==
            [raised |-> checked.raised, collected |-> checked.errors,
             errors |-> IF checked.raised = "ValidationError"
                        THEN checked.errors ELSE <<>>]
    IN  IF model_exists(model) = <<>>
        THEN Rejected(Error(<< <<"model">> >>, "Model does not exist.",
                            model, <<>>, "value_error"))
        ELSE IF filter_fields.kind = "Filter" /\ HasInvalidOp(filter_fields)
        THEN Rejected(Error(<< <<"operation_type">> >>,
                            "The chosen operation type is not valid.",
                            <<>>, <<>>, "value_error"))
        ELSE IF page < 1
        THEN Rejected(Error(<< <<"page">> >>, "Page must be at least 1.",
                            <<>>, <<>>, "value_error"))
        ELSE After(validate_fields(self))

----------------------------------------------------------------------------
(* django.db.models.Q as build_q uses it: a tree of keyword lookups.        *)
(* Q() has no children and is falsy; combining with a falsy Q returns the   *)
(* other operand.                                                           *)

\* Q(id=0), which no row satisfies, where the code starts from Q()
match_none_q ==
    [kind |-> "Q", connector |-> "AND", negated |-> FALSE,
     children |-> << [kind |-> "kw", key |-> <<"i", "d">>,
                      value |-> [t |-> "str", v |-> <<"0">>]] >>]

EmptyQ == [kind |-> "Q", connector |-> "AND", negated |-> FALSE, children |-> <<>>]

\* Q(**{key: value})
Kw(key, value) ==
    [kind |-> "Q", connector |-> "AND", negated |-> FALSE,
     children |-> << [kind |-> "kw", key |-> key, value |-> value] >>]

\* bool(q)
QBool(q) == q.children # <<>>

\* Q._combine(self, other, conn)
_combine(self, other, conn) ==
    IF ~QBool(self) THEN other
    ELSE IF ~QBool(other) THEN self
    ELSE [kind |-> "Q", connector |-> conn, negated |-> FALSE,
          children |-> <<self, other>>]

\* self & other, self | other, ~self
QAnd(self, other) == _combine(self, other, "AND")
QOr(self, other) == _combine(self, other, "OR")
QNot(self) == [self EXCEPT !.negated = ~@]

str_lt == <<"l", "t">>
str_lte == <<"l", "t", "e">>
str_gt == <<"g", "t">>
str_gte == <<"g", "t", "e">>
str_icontains == <<"i", "c", "o", "n", "t", "a", "i", "n", "s">>
str_exact == <<"e", "x", "a", "c", "t">>

\* condition_to_q(cond)
condition_to_q(cond) ==
    LET lookup == cond.field
        value == cond.value
    IN  CASE cond.op = "is" -> Kw(lookup, value)
          [] cond.op = "is_not" -> QNot(Kw(lookup, value))
          [] cond.op = "lt" -> Kw(lookup \o sep \o str_lt, value)
          [] cond.op = "lte" -> Kw(lookup \o sep \o str_lte, value)
          [] cond.op = "gt" -> Kw(lookup \o sep \o str_gt, value)
          [] cond.op = "gte" -> Kw(lookup \o sep \o str_gte, value)
          [] cond.op = "icontains" -> Kw(lookup \o sep \o str_icontains, value)

\* build_q(filter_obj)
RECURSIVE build_q(_)
build_q(filter_obj) ==
    LET Item(item) == IF item.kind = "Filter" THEN build_q(item)
                      ELSE condition_to_q(item)
        RECURSIVE AndEach(_, _)
        AndEach(q, items) ==
            IF items = <<>> THEN q
            ELSE AndEach(QAnd(q, Item(Head(items))), Tail(items))
        RECURSIVE OrEach(_, _)
        OrEach(or_q, items) ==
            IF items = <<>> THEN or_q
            ELSE OrEach(QOr(or_q, Item(Head(items))), Tail(items))
        RECURSIVE AndNotEach(_, _)
        AndNotEach(q, items) ==
            IF items = <<>> THEN q
            ELSE AndNotEach(QAnd(q, QNot(Item(Head(items)))), Tail(items))
        and_q == AndEach(EmptyQ, filter_obj.and_operation)
        with_or == IF filter_obj.or_operation # <<>>
                   THEN QOr(and_q, OrEach(EmptyQ, filter_obj.or_operation))
                   ELSE and_q
    IN  AndNotEach(with_or, filter_obj.not_operation)

----------------------------------------------------------------------------
(* The data store behind model.objects                                      *)

\* rows of the BackupJob table
JobCount == 2

NamePool == <<str_job, str_True, str_backup>>
SizePool == <<0, 1, 2, 3>>

\* the row of the Backup table whose primary key is i
BackupRow(i) ==
    (str_id :> IntV(i)) @@
    (str_name :> StrV(NamePool[(i % Len(NamePool)) + 1])) @@
    (str_backup_size :> IntV(SizePool[(i % Len(SizePool)) + 1])) @@
    (str_backup_job :> IntV((i % JobCount) + 1))

JobRow(i) ==
    (str_id :> IntV(i)) @@
    (str_name :> StrV(NamePool[(i % Len(NamePool)) + 1]))

\* the rows of a model's table
TableRows(model) ==
    CASE model = "core.Backup" -> {BackupRow(i) : i \in 1..nrows}
      [] model = "core.BackupJob" -> {JobRow(i) : i \in 1..JobCount}
      [] OTHER -> {}

RECURSIVE ToInt(_)
ToInt(s) ==
    IF s = <<>> THEN 0
    ELSE 10 * ToInt(SubSeq(s, 1, Len(s) - 1))
         + (CHOOSE d \in 0..9 : ToString(d) = s[Len(s)])

\* str(n) of an integer n >= 0
RECURSIVE IntToStr(_)
IntToStr(n) ==
    IF n < 10 THEN <<ToString(n)>>
    ELSE IntToStr(n \div 10) \o <<ToString(n % 10)>>

\* the characters in code point order, and a < b on strings
Alphabet ==
    <<"0", "1", "2", "3", "4", "5", "6", "7", "8", "9",
      "A", "B", "E", "F", "H", "J", "L", "N", "P", "R", "S", "T", "U", "Z", "_",
      "a", "b", "c", "d", "e", "f", "g", "h", "i", "j", "k", "l", "m",
      "n", "o", "p", "q", "r", "s", "t", "u", "v", "w", "x", "y", "z">>
Ord(c) == CHOOSE i \in DOMAIN Alphabet : Alphabet[i] = c

RECURSIVE StrLess(_, _)
StrLess(a, b) ==
    IF b = <<>> THEN FALSE
    ELSE IF a = <<>> THEN TRUE
    ELSE IF Head(a) = Head(b) THEN StrLess(Tail(a), Tail(b))
    ELSE Ord(Head(a)) < Ord(Head(b))

Less(a, b) == IF a.t = "int" THEN a.v < b.v ELSE StrLess(a.v, b.v)

IsRelation(cls) ==
    \/ IsInstance(cls, "ForeignKey") \/ IsInstance(cls, "ManyToManyField")
    \/ cls \in {"ManyToOneRel", "ManyToManyRel", "OneToOneRel"}

IsReverse(cls) == cls \in {"ManyToOneRel", "ManyToManyRel", "OneToOneRel"}

\* the value a lookup compares with, as the field prepares it: an integer
\* field and a relation (through the key it references) call int(value), a
\* text field str(value)
Prepared(cls, value) ==
    IF IsInstance(cls, "IntegerField") \/ IsRelation(cls)
    THEN CASE value.t = "bool" ->
                [raised |-> "", value |-> IntV(IF value.v THEN 1 ELSE 0)]
           [] value.t = "str" /\ value.v # <<>> /\ Range(value.v) \subseteq Digits ->
                [raised |-> "", value |-> IntV(ToInt(value.v))]
           [] OTHER -> [raised |-> "ValueError", value |-> value]
    ELSE CASE value.t = "bool" ->
                [raised |-> "", value |-> StrV(IF value.v THEN str_True ELSE str_False)]
           [] OTHER -> [raised |-> "", value |-> value]

LookupNames == {str_exact, str_lt, str_lte, str_gt, str_gte, str_icontains}

\* the last segment of a keyword names the lookup when it is a lookup name;
\* what precedes it is the field path: `field` is exact, `field__lt` is lt
KwSplit(key) ==
    LET at == Occurrences(key, sep)
        last == CHOOSE i \in at : \A j \in at : j <= i
    IN  IF at # {} /\ SubSeq(key, last + 2, Len(key)) \in LookupNames
        THEN <<SubSeq(key, 1, last - 1), SubSeq(key, last + 2, Len(key))>>
        ELSE <<key, str_exact>>
KwPath(key) == KwSplit(key)[1]
KwLookup(key) == KwSplit(key)[2]

\* the ORM resolves a path when every segment names a field of the model it
\* has reached and every segment but the last is a relation
RECURSIVE Resolves(_, _)
Resolves(model, path) ==
    IF ~Contains(path, sep) THEN get_field(model, path).raised = ""
    ELSE LET got == get_field(model, SplitOnce(path, sep)[1])
         IN  /\ got.raised = ""
             /\ IsRelation(got.field.cls)
             /\ Resolves(got.field.related_model, SplitOnce(path, sep)[2])

\* the field a resolved path ends at
RECURSIVE LeafField(_, _)
LeafField(model, path) ==
    IF ~Contains(path, sep) THEN get_field(model, path).field
    ELSE LeafField(get_field(model, SplitOnce(path, sep)[1]).field.related_model,
                   SplitOnce(path, sep)[2])

\* the rows a relation field of a row leads to
Related(model, row, field) ==
    IF IsReverse(field.cls)
    THEN {r \in TableRows(field.related_model) : r[field.remote_name] = row[str_id]}
    ELSE {r \in TableRows(field.related_model) : r[str_id] = row[field.name]}

\* the values a resolved path takes on a row: one for each row the joins
\* along the path reach
RECURSIVE RowValues(_, _, _)
RowValues(model, row, path) ==
    LET name == IF Contains(path, sep) THEN SplitOnce(path, sep)[1] ELSE path
        field == get_field(model, name).field
    IN  IF Contains(path, sep)
        THEN UNION {RowValues(field.related_model, r, SplitOnce(path, sep)[2]) :
                        r \in Related(model, row, field)}
        ELSE IF IsReverse(field.cls)
        THEN {r[str_id] : r \in Related(model, row, field)}
        ELSE {row[name]}

\* the keyword lookups of a Q
RECURSIVE Keywords(_)
Keywords(q) ==
    IF q.kind = "kw" THEN {q}
    ELSE UNION {Keywords(q.children[i]) : i \in DOMAIN q.children}

\* filter(q) raises FieldError for a keyword it cannot resolve or a lookup a
\* relation does not support, ValueError for a value the field cannot prepare
FilterRaises(model, q) ==
    LET bad(kw) == \/ ~Resolves(model, KwPath(kw.key))
                   \/ /\ IsRelation(LeafField(model, KwPath(kw.key)).cls)
                      /\ KwLookup(kw.key) = str_icontains
        unprepared(kw) ==
            Prepared(LeafField(model, KwPath(kw.key)).cls, kw.value).raised # ""
    IN  IF \E kw \in Keywords(q) : bad(kw) THEN "FieldError"
        ELSE IF \E kw \in Keywords(q) : unprepared(kw) THEN "ValueError"
        ELSE ""

\* values(*select_fields) raises FieldError for a path it cannot resolve
ValuesRaises(model, select_fields) ==
    IF \E path \in Range(select_fields) : ~Resolves(model, path)
    THEN "FieldError" ELSE ""

\* one keyword lookup on one row: some value the path takes satisfies it
Match(model, row, kw) ==
    LET want == Prepared(LeafField(model, KwPath(kw.key)).cls, kw.value).value
        lookup == KwLookup(kw.key)
        Text(value) == IF value.t = "int" THEN IntToStr(value.v) ELSE value.v
    IN  \E have \in RowValues(model, row, KwPath(kw.key)) :
            CASE lookup = str_exact -> have = want
              [] lookup = str_lt -> Less(have, want)
              [] lookup = str_lte -> Less(have, want) \/ have = want
              [] lookup = str_gt -> Less(want, have)
              [] lookup = str_gte -> Less(want, have) \/ have = want
              [] lookup = str_icontains ->
                    Contains(Lower(Text(have)), Lower(Text(want)))

\* the predicate a Q denotes; a Q without children constrains nothing
RECURSIVE Holds(_, _, _)
Holds(model, row, q) ==
    IF q.kind = "kw" THEN Match(model, row, q)
    ELSE IF q.children = <<>> THEN TRUE
    ELSE LET all == \A i \in DOMAIN q.children : Holds(model, row, q.children[i])
             some == \E i \in DOMAIN q.children : Holds(model, row, q.children[i])
             inner == IF q.connector = "AND" THEN all ELSE some
         IN  IF q.negated THEN ~inner ELSE inner

\* order_by('id'): the rows by ascending primary key, which is unique
OrderById(rows) ==
    LET ids == {r[str_id].v : r \in rows}
        before == [k \in ids |-> Cardinality({j \in ids : j < k})]
    IN  [i \in 1..Cardinality(rows) |->
            CHOOSE r \in rows : before[r[str_id].v] = i - 1]

\* the keys of the dictionaries values(*select_fields) yields: the selected
\* paths, or with no path given every column of the table
ValuesPaths(model, select_fields) ==
    IF select_fields # <<>> THEN Range(select_fields)
    ELSE {f.name : f \in {g \in FieldsOf(model) : ~IsReverse(g.cls)}}

\* model.objects.filter(q_obj).order_by('id').values(*select_fields): what
\* building the queryset raises, and the rows it yields. The selected paths
\* follow forward relations, which reach one row
Results(model, q_obj, select_fields) ==
    LET Rows(ordered) ==
            [i \in DOMAIN ordered |->
                [path \in ValuesPaths(model, select_fields) |->
                    CHOOSE v \in RowValues(model, ordered[i], path) : TRUE]]
        Built(filter_raises, values_raises) ==
            IF filter_raises # "" THEN [raised |-> filter_raises, rows |-> <<>>]
            ELSE IF values_raises # "" THEN [raised |-> values_raises, rows |-> <<>>]
            ELSE [raised |-> "",
                  rows |-> Rows(OrderById({row \in TableRows(model) :
                                              Holds(model, row, q_obj)}))]
    IN  Built(FilterRaises(model, q_obj), ValuesRaises(model, select_fields))

----------------------------------------------------------------------------
(* django.core.paginator.Paginator(results, page_size) with its defaults    *)
(* orphans = 0 and allow_empty_first_page = True                            *)

Ceil(a, b) == (a + b - 1) \div b
Max(a, b) == IF a >= b THEN a ELSE b

\* paginator.num_pages
num_pages(count, per_page) == Ceil(Max(1, count), per_page)

\* paginator.page(number) of a number >= 1: EmptyPage beyond the last page
page_raises(count, per_page, number) == number > num_pages(count, per_page)

\* page_obj.object_list
object_list_after(results, per_page, number) ==
    LET bottom == number * per_page
        top == IF bottom + per_page >= Len(results) THEN Len(results)
               ELSE bottom + per_page
    IN  SubSeq(results, bottom + 1, top)

object_list(results, per_page, number) ==
    LET bottom == (number - 1) * per_page
        top == IF bottom + per_page >= Len(results) THEN Len(results)
               ELSE bottom + per_page
    IN  SubSeq(results, bottom + 1, top)

----------------------------------------------------------------------------
(* Query.post (views.py)                                                    *)

\* an optional page number: <<>> is null
Some(n) == <<n>>
Null == <<>>

\* a response: the status, the exception that escaped the view (if any), the
\* list of structured errors of a 400 body, and the body of a 200
Failure(status, raised, errs) ==
    [status |-> status, raised |-> raised, errors |-> errs, data |-> <<>>]

\* "<key> is required."
Missing(key) ==
    Failure(400, "", << Error(<< <<key>> >>, "is required.", <<key>>, <<>>,
                              "value_error.missing") >>)

\* Page.has_next(), has_previous(), next_page_number() and
\* previous_page_number() of page `number` of a paginator of num_pages pages
has_next_or_last(number, pages) == number <= pages

has_next(number, pages) == number < pages

has_previous(number) == number > 1
next_page_number(number) == number + 1
previous_page_number(number) == number - 1

\* what Query.post(request) does with request.data: the response, the errors
\* validate_fields had collected when it ended, and the number of queries
\* run against the data store
QueryPost(data) ==
    LET app_label == IF "app_label" \in data.keys THEN data.app_label
                     ELSE settings.DEFAULT_APP_LABEL
        Served(reply, query, queries) ==
            [response |-> reply, collected |-> query.collected, queried |-> queries]
        PageOf(query, results, page_size, total_pages) ==
            IF page_raises(Len(results), page_size, data.page)
            THEN Served(Failure(500, "EmptyPage", <<>>), query, 1)
            ELSE Served(
                    [status |-> 200, raised |-> "", errors |-> <<>>,
                     data |-> << [count |-> Len(results),
                                  page |-> data.page,
                                  page_size |-> page_size,
                                  total_pages |-> total_pages,
                                  next |-> IF has_next(data.page, total_pages)
                                           THEN Some(next_page_number(data.page))
                                           ELSE Null,
                                  previous |-> IF has_previous(data.page)
                                               THEN Some(previous_page_number(data.page))
                                               ELSE Null,
                                  results |-> object_list(results, page_size,
                                                          data.page)] >>],
                    query, 2)
        Paginate(query, results, page_size) ==
            IF results.raised # ""
            THEN Served(Failure(500, results.raised, <<>>), query, 0)
            ELSE PageOf(query, results.rows, page_size,
                        num_pages(Len(results.rows), page_size))
        Execute(query) ==
            IF query.raised = "ValidationError"
            THEN Served(Failure(400, "", query.errors), query, 0)
            ELSE IF query.raised # ""
            THEN Served(Failure(500, query.raised, <<>>), query, 0)
            ELSE Paginate(query,
                    Results(get_model(IF app_label # <<>> THEN app_label
                                      ELSE settings.DEFAULT_APP_LABEL,
                                      data.model).model,
                            IF data.filter_fields.kind = "Filter"
                            THEN build_q(Validated(data.filter_fields)) ELSE EmptyQ,
                            data.select_fields),
                    settings.PAGE_SIZE)
        KeyError(key) ==
            [response |-> Missing(key), collected |-> <<>>, queried |-> 0]
    IN  IF "model" \notin data.keys THEN KeyError("model")
        ELSE IF "select_fields" \notin data.keys THEN KeyError("select_fields")
        ELSE IF "page" \notin data.keys THEN KeyError("page")
        ELSE Execute(QueryFilter(data.model, data.select_fields, data.filter_fields,
                                 data.page, app_label))

----------------------------------------------------------------------------
(* The state machine: one request is received and served                    *)

\* QLAB_DEFAULTS
DEFAULT_PAGE_SIZE == 100
DEFAULT_MAX_RELATION_DEPTH == 2

\* qlab_settings with PAGE_SIZE overridden by QLAB_SETTINGS
Settings(page_size) ==
    [DEFAULT_APP_LABEL |-> str_core, PAGE_SIZE |-> page_size,
     MAX_RELATION_DEPTH |-> DEFAULT_MAX_RELATION_DEPTH]

Request(keys, model, select_fields, filter_fields, page, app_label) ==
    [keys |-> keys, model |-> model, select_fields |-> select_fields,
     filter_fields |-> filter_fields, page |-> page, app_label |-> app_label]

NoRequest == Request({}, <<>>, <<>>, NoFilter, 0, <<>>)
NoResponse == Failure(0, "", <<>>)
NoProbe == [cls |-> "Field", op |-> "", allowed |-> <<>>, accepted |-> FALSE]

InitWith(page_sizes, row_counts) ==
    /\ settings \in {Settings(n) : n \in page_sizes}
    /\ nrows \in row_counts
    /\ pc = "idle"
    /\ request = NoRequest
    /\ response = NoResponse
    /\ errors = <<>>
    /\ queried = 0
    /\ stack = <<>>

\* a request arrives
Receive(data) ==
    /\ pc = "idle"
    /\ pc' = "received"
    /\ request' = data
    /\ UNCHANGED <<settings, nrows, response, errors, queried, probe, stack>>

\* Query.post serves it
Post ==
    /\ pc = "received"
    /\ pc' = "responded"
    /\ \E served \in {QueryPost(request)} :
          /\ response' = served.response
          /\ errors' = served.collected
          /\ queried' = served.queried
    /\ UNCHANGED <<settings, nrows, request, probe, stack>>

----------------------------------------------------------------------------
(* Bounded inputs                                                           *)

\* sequences over S of length at most n
SeqsUpTo(S, n) == UNION {[1..k -> S] : k \in 0..n}

MaxSelect == 2      \* longest select_fields list
MaxRows == 3        \* rows of the Backup table while requests are validated
MaxPage == 2        \* largest page number requested while validating

str_backup_job__name == str_backup_job \o sep \o str_name
str_backup_job_name == str_backup_job \o <<"_">> \o str_name
str_name_x == str_name \o <<"_", "x">>
str_1d == <<"1", "d">>
str_1 == <<"1">>

SelectPaths == {str_id, str_backup_job__name, str_backup_job_name, str_name_x}

ConditionFields ==
    {str_name, str_backup_size, str_backup_job__name, str_backup, str_1d}

ConditionOps == {"is", "gt", "icontains", "like"}

Conditions == {Condition(f, op, str_1) : f \in ConditionFields, op \in ConditionOps}

NestedConditions ==
    {Condition(str_name, "is", str_1), Condition(str_backup_size, "icontains", str_1),
     Condition(str_backup_job_name, "like", str_1)}

Filters ==
    {NoFilter}
    \cup {Filter(<<c>>, <<>>, <<>>) : c \in Conditions}
    \cup {Filter(<<c1>>, <<>>, << Filter(<<>>, <<c2>>, <<>>) >>) :
            c1 \in NestedConditions, c2 \in NestedConditions}

\* the model and app_label keys of a request: the keys present, their values
ModelKeys ==
    { [keys |-> {"model"}, model |-> str_Backup, app_label |-> <<>>],
      [keys |-> {"model"}, model |-> str_BackupJob, app_label |-> <<>>],
      [keys |-> {"model"}, model |-> str_Audit, app_label |-> <<>>],
      [keys |-> {"model", "app_label"}, model |-> str_Audit, app_label |-> str_other],
      [keys |-> {"model", "app_label"}, model |-> str_Backup, app_label |-> str_core],
      [keys |-> {"model"}, model |-> str_Nope, app_label |-> <<>>],
      [keys |-> {}, model |-> <<>>, app_label |-> <<>>] }

\* requests for a model of the default app, with every key: all select
\* lists and all filters
ModelRequests ==
    {Request({"model", "select_fields", "page"}, model, select_fields, filter_fields,
             page, <<>>) :
        model \in {str_Backup, str_BackupJob},
        select_fields \in SeqsUpTo(SelectPaths, MaxSelect),
        filter_fields \in Filters,
        page \in 1..MaxPage}

\* requests with any model and app_label, any page, keys that may be missing
DefectRequests ==
    {Request(m.keys \cup more, m.model, select_fields, filter_fields, page,
             m.app_label) :
        m \in ModelKeys,
        more \in SUBSET {"select_fields", "page"},
        select_fields \in {<<>>, <<str_id>>, <<str_backup_job_name>>},
        filter_fields \in {NoFilter} \cup
            {Filter(<<c>>, <<>>, <<>>) : c \in NestedConditions},
        page \in 0..MaxPage}

QueryRequests == ModelRequests \cup DefectRequests

----------------------------------------------------------------------------
(* Specifications                                                           *)

\* requests of every kind against a small table
Init == InitWith({DEFAULT_PAGE_SIZE}, {MaxRows}) /\ probe = NoProbe

ReceiveQuery == pc = "idle" /\ \E data \in QueryRequests : Receive(data)

Next == ReceiveQuery \/ Post

Spec == Init /\ [][Next]_vars

\* Filters over the columns of the Backup table, compiled and run on a table
\* in which every combination of column values occurs
MaxGroup == 2          \* longest and_operation and or_operation
MaxFilterRows == 12    \* rows of the Backup table

str_b == <<"b">>
str_3 == <<"3">>

FilterConditions ==
    {Condition(str_name, "is", str_job), Condition(str_backup_size, "gt", str_1),
     Condition(str_backup_size, "is_not", str_3)}

Groups1 == {<<>>} \cup {<<c>> : c \in FilterConditions}

NestedFilters ==
    {Filter(<<c1>>, <<c2>>, <<>>) :
        c1 \in {Condition(str_name, "icontains", str_b)}, c2 \in FilterConditions}

RowFilters ==
    {Filter(and_operation, or_operation, not_operation) :
        and_operation \in SeqsUpTo(FilterConditions, MaxGroup),
        or_operation \in SeqsUpTo(FilterConditions, MaxGroup),
        not_operation \in Groups1}
    \cup {Filter(and_operation, <<inner>>, <<>>) :
            and_operation \in Groups1, inner \in NestedFilters}
    \cup {Filter(<<inner>>, or_operation, <<>>) :
            or_operation \in Groups1, inner \in NestedFilters}
    \cup {Filter(<<>>, or_operation, <<inner>>) :
            or_operation \in Groups1, inner \in NestedFilters}
    \cup {Filter(and_operation, or_operation, <<Filter(<<>>, <<>>, <<>>)>>) :
            and_operation \in Groups1, or_operation \in Groups1}
    \cup UNION {{Filter(<<>>, <<c, Filter(<<>>, <<>>, <<>>)>>, <<>>),
                 Filter(<<>>, <<Filter(<<>>, <<>>, <<>>), c>>, <<>>),
                 Filter(<<Filter(<<>>, <<>>, <<>>), c>>, <<>>, <<>>)} :
                    c \in FilterConditions}

FilterRequests ==
    {Request({"model", "select_fields", "page"}, str_Backup,
             <<str_id>>, filter_fields, 1, <<>>) :
        filter_fields \in RowFilters}

InitFilter == InitWith({DEFAULT_PAGE_SIZE}, {MaxFilterRows}) /\ probe = NoProbe

ReceiveFilter == pc = "idle" /\ \E data \in FilterRequests : Receive(data)

NextFilter == ReceiveFilter \/ Post

SpecFilter == InitFilter /\ [][NextFilter]_vars

\* Pages of the whole Backup table, for several table sizes and several
\* values of the PAGE_SIZE setting
MaxPageRows == 250     \* rows of the largest Backup table
MaxPageNumber == 4     \* largest page requested

PageSizes == {1, 2, DEFAULT_PAGE_SIZE}

RowCounts ==
    {0, 1, 2, 3, DEFAULT_PAGE_SIZE, DEFAULT_PAGE_SIZE + 1, 2 * DEFAULT_PAGE_SIZE,
     MaxPageRows}

PageRequests ==
    {Request({"model", "select_fields", "page"}, str_Backup, <<str_id>>, NoFilter,
             page, <<>>) :
        page \in 1..MaxPageNumber}

InitPage == InitWith(PageSizes, RowCounts) /\ probe = NoProbe

ReceivePage == pc = "idle" /\ \E data \in PageRequests : Receive(data)

NextPage == ReceivePage \/ Post

SpecPage == InitPage /\ [][NextPage]_vars

\* The policy and the validator applied to one field type and one operation
\* tag: the tags of allowed_ops and some that only FIELD_OPS of
\* check_attribute_operation lists or nothing lists
ProbeOps == Range(allowed_ops) \cup {"iexact", "startswith", "like"}

InitOps ==
    /\ InitWith({DEFAULT_PAGE_SIZE}, {MaxRows})
    /\ \E cls \in FieldClasses, op \in ProbeOps :
          probe = [cls |-> cls, op |-> op, allowed |-> <<>>, accepted |-> FALSE]

\* get_allowed_operations(field) and the loop of check_attribute_operation
\* for a field of class probe.cls and the tag probe.op
CheckOperation ==
    /\ pc = "idle"
    /\ pc' = "probed"
    /\ probe' = [probe EXCEPT !.allowed = get_allowed_operations(probe.cls),
                              !.accepted = OperationAllowed(probe.cls, probe.op)]
    /\ UNCHANGED <<settings, nrows, request, response, errors, queried, stack>>

NextOps == CheckOperation

SpecOps == InitOps /\ [][NextOps]_vars

\* Pages of the rows a filter selects, for small pages: every page of
\* every table of up to MaxFilterRows rows
MaxPerPage == 3        \* largest PAGE_SIZE while the pages are compared

ListFilters ==
    {NoFilter,
     Filter(<<Condition(str_backup_size, "gt", str_1)>>, <<>>, <<>>),
     Filter(<<Condition(str_name, "icontains", str_b)>>, <<>>,
            <<Condition(str_backup_size, "is", str_3)>>)}

ListRequests ==
    {Request({"model", "select_fields", "page"}, str_Backup, <<str_id>>,
             filter_fields, page, <<>>) :
        filter_fields \in ListFilters, page \in 1..MaxPageNumber}

InitList == InitWith(1..MaxPerPage, 0..MaxFilterRows) /\ probe = NoProbe

ReceiveList == pc = "idle" /\ \E data \in ListRequests : Receive(data)

NextList == ReceiveList \/ Post

SpecList == InitList /\ [][NextList]_vars

----------------------------------------------------------------------------
(* MetaData.post: get_model_metadata and the calls of                       *)
(* extract_field_metadata, one step for each entry, field and return        *)

\* the list as it is, where get_model_metadata sorts it
as_collected(lookups) == lookups

\* sorted(lookups): strings in code point order, equal ones in the order
\* they had
sorted(lookups) ==
    LET Before(j, i) ==
            \/ StrLess(lookups[j], lookups[i])
            \/ lookups[j] = lookups[i] /\ j < i
        Rank(i) == Cardinality({j \in DOMAIN lookups : Before(j, i)}) + 1
    IN  [k \in DOMAIN lookups |-> lookups[CHOOSE i \in DOMAIN lookups : Rank(i) = k]]

\* the locals of one call of extract_field_metadata; i is the position of
\* the loop in model._meta.get_fields(), 0 before the visited check
Frame(model, prefix, max_depth, current_depth, visited_models) ==
    [model |-> model, prefix |-> prefix, max_depth |-> max_depth,
     current_depth |-> current_depth, visited_models |-> visited_models,
     i |-> 0, fields_metadata |-> <<>>, all_lookups |-> <<>>]

\* the check with model_id never found in visited_models
never_in_visited(model_id, visited_models) == FALSE

\* model_id in visited_models
in_visited(model_id, visited_models) == model_id \in visited_models

\* the test with current_depth <= max_depth
within_or_at_max_depth(current_depth, max_depth) == current_depth <= max_depth

\* current_depth < max_depth
below_max_depth(current_depth, max_depth) == current_depth < max_depth

\* the caller's set when the caller and the callee share one set
shared_visited(own, passed) == passed

\* the caller's visited_models after a call that was given
\* visited_models.copy(): its own set, whatever the callee added to `passed`
copied_visited(own, passed) == own

\* the serializer rejects the request, or get_model_metadata starts the
\* root call extract_field_metadata(model, max_depth=max_depth)
MetaDataPost ==
    /\ pc = "received"
    /\ LET app_label == IF "app_label" \in request.keys THEN request.app_label
                         ELSE settings.DEFAULT_APP_LABEL
            Start(got) ==
                IF got.raised # ""
                THEN /\ response' = Failure(500, got.raised, <<>>)
                     /\ pc' = "responded"
                     /\ stack' = <<>>
                ELSE /\ response' = response
                     /\ pc' = "describing"
                     /\ stack' = << Frame(got.model, <<>>,
                                          settings.MAX_RELATION_DEPTH, 0, {}) >>
       IN  IF "model" \notin request.keys
           THEN /\ response' = Failure(400, "", << Error(<< <<"model">> >>,
                                   "This field is required.", <<>>, <<>>, "required") >>)
                /\ pc' = "responded"
                /\ stack' = <<>>
           ELSE IF model_exists(request.model) = <<>>
           THEN /\ response' = Failure(400, "", << Error(<< <<"model">> >>,
                                   "This model does not exist.", <<>>, <<>>, "invalid") >>)
                /\ pc' = "responded"
                /\ stack' = <<>>
           ELSE Start(get_model(app_label, request.model))
    /\ UNCHANGED <<settings, nrows, request, errors, queried, probe>>

\* the start of a call: a model already in visited_models returns [], [];
\* any other is added to it and its fields are gone through
EnterModel ==
    /\ pc = "describing"
    /\ LET n == Len(stack)
            top == stack[n]
       IN  /\ top.i = 0
           /\ stack' = IF in_visited(top.model, top.visited_models)
                        THEN SubSeq(stack, 1, n - 1)
                        ELSE [stack EXCEPT ![n].visited_models = @ \cup {top.model},
                                           ![n].i = 1]
    /\ UNCHANGED <<settings, nrows, pc, request, response, errors, queried, probe>>

\* one iteration of the loop over model._meta.get_fields(): an
\* auto_created field is skipped, any other is listed, and for a relation
\* the related model is walked when the depth allows
NextField ==
    /\ pc = "describing"
    /\ LET n == Len(stack)
            top == stack[n]
            Listed(field, full_field_path) ==
                [top EXCEPT !.i = @ + 1,
                            !.fields_metadata =
                                Append(@, field_info(field, full_field_path)),
                            !.all_lookups = Append(@, full_field_path)]
            Step(field, full_field_path) ==
                IF field.auto_created
                THEN [stack EXCEPT ![n].i = @ + 1]
                ELSE IF IsForwardRelation(field.cls)
                        /\ below_max_depth(top.current_depth, top.max_depth)
                THEN Append([stack EXCEPT ![n] = Listed(field, full_field_path)],
                            Frame(field.related_model, full_field_path,
                                  top.max_depth, top.current_depth + 1,
                                  top.visited_models))
                ELSE [stack EXCEPT ![n] = Listed(field, full_field_path)]
       IN  /\ top.i \in DOMAIN get_fields(top.model)
           /\ stack' = Step(get_fields(top.model)[top.i],
                            IF top.prefix # <<>>
                            THEN top.prefix \o sep \o get_fields(top.model)[top.i].name
                            ELSE get_fields(top.model)[top.i].name)
    /\ UNCHANGED <<settings, nrows, pc, request, response, errors, queried, probe>>

\* a recursive call returns: the caller extends its two lists
ReturnFields ==
    /\ pc = "describing"
    /\ LET n == Len(stack)
            top == stack[n]
       IN  /\ n > 1
           /\ top.i > Len(get_fields(top.model))
           /\ stack' = [SubSeq(stack, 1, n - 1) EXCEPT
                            ![n - 1].fields_metadata = @ \o top.fields_metadata,
                            ![n - 1].all_lookups = @ \o top.all_lookups,
                            ![n - 1].visited_models =
                                copied_visited(@, top.visited_models)]
    /\ UNCHANGED <<settings, nrows, pc, request, response, errors, queried, probe>>

\* the root call returns: get_model_metadata builds its dictionary and the
\* view responds
Described ==
    /\ pc = "describing"
    /\ Len(stack) = 1
    /\ stack[1].i > Len(get_fields(stack[1].model))
    /\ response' =
            [status |-> 200, raised |-> "", errors |-> <<>>,
             data |-> << [model_name |-> ModelMeta(stack[1].model).name,
                          app_label |-> IF "app_label" \in request.keys
                                        THEN request.app_label
                                        ELSE settings.DEFAULT_APP_LABEL,
                          fields |-> stack[1].fields_metadata,
                          all_lookups |-> sorted(stack[1].all_lookups)] >>]
    /\ pc' = "responded"
    /\ UNCHANGED <<settings, nrows, request, errors, queried, probe, stack>>

MaxDepth == 10         \* largest MAX_RELATION_DEPTH setting

MetaRequests ==
    {Request(m.keys, m.model, <<>>, NoFilter, 0, m.app_label) : m \in ModelKeys}
    \cup {Request({"model"}, name, <<>>, NoFilter, 0, <<>>) :
            name \in {Name.Host, Name.Site, Name.Region, Name.Zone, Name.Profile,
                       Name.Tag}}

InitMeta ==
    /\ settings \in {[Settings(DEFAULT_PAGE_SIZE) EXCEPT !.MAX_RELATION_DEPTH = d] :
                        d \in 0..MaxDepth}
    /\ nrows = MaxRows
    /\ pc = "idle"
    /\ request = NoRequest
    /\ response = NoResponse
    /\ errors = <<>>
    /\ queried = 0
    /\ probe = NoProbe
    /\ stack = <<>>

ReceiveMeta == pc = "idle" /\ \E data \in MetaRequests : Receive(data)

NextMeta ==
    ReceiveMeta \/ MetaDataPost \/ EnterModel \/ NextField \/ ReturnFields
        \/ Described

SpecMeta == InitMeta /\ [][NextMeta]_vars

\* the view runs to its response once it has the request
FairMeta == SpecMeta /\ WF_vars(NextMeta)

----------------------------------------------------------------------------
(* Query.post for one selected path of Host                                 *)

FirstSegments ==
    {Name.site, Name.parent, Name.profile, Name.tags, Name.host, str_name,
     Name.email, str_job}

NextSegments ==
    {str_name, Name.owner, Name.region, Name.url, Name.slug, str_id, str_job}

LastSegments == {str_name, Name.zone}

SelectedPaths ==
    {a \o sep \o b : a \in FirstSegments, b \in NextSegments}
    \cup {a \o sep \o b \o sep \o c :
            a \in FirstSegments, b \in NextSegments, c \in LastSegments}

PathRequests ==
    {Request({"model", "select_fields", "page"}, Name.Host, <<path>>, NoFilter,
             1, <<>>) : path \in SelectedPaths}

InitPaths == InitWith({DEFAULT_PAGE_SIZE}, {MaxRows}) /\ probe = NoProbe

ReceivePath == pc = "idle" /\ \E data \in PathRequests : Receive(data)

NextPaths == ReceivePath \/ Post

SpecPaths == InitPaths /\ [][NextPaths]_vars

----------------------------------------------------------------------------
(* Calls of single functions: probe holds the arguments of the call and,   *)
(* once pc is "called", what it returned                                    *)

\* the strings a Condition may carry as value
ValueStrings ==
    {str_true, str_True, str_false, str_False, <<"T", "R", "U", "E">>,
     <<"F", "A", "L", "S", "E">>, <<" ", "t", "r", "u", "e">>,
     <<"t", "r", "u", "e", " ">>, str_1, <<"0">>, str_b, <<>>}

ConditionCalls ==
    {[fn |-> "Condition", field |-> f, op |-> op, value |-> v] :
        f \in {str_name, str_backup_size, str_backup_job, Name.created},
        op \in Range(allowed_ops) \cup {"like"}, v \in ValueStrings}

\* Condition(field=..., op=..., value=...) and condition_to_q of the result:
\* validate_op raises for a tag outside allowed_ops, validate_value converts
\* the value
CallCondition ==
    /\ pc = "idle"
    /\ probe.fn = "Condition"
    /\ pc' = "called"
    /\ probe' =
            IF probe.op \notin Range(allowed_ops)
            THEN [fn |-> "Condition", field |-> probe.field, op |-> probe.op,
                  value |-> probe.value, raised |-> "ValidationError"]
            ELSE LET cond == Condition(probe.field, probe.op,
                                       validate_value(probe.value))
                 IN  [fn |-> "Condition", field |-> probe.field, op |-> probe.op,
                      value |-> probe.value, raised |-> "", cond |-> cond,
                      q |-> condition_to_q(cond)]
    /\ UNCHANGED <<settings, nrows, request, response, errors, queried, stack>>

\* Filter trees whose conditions carry, as value, their number in the order
\* AND group, OR group, NOT group, nested Filters in place
NumberedFilters ==
    LET c(n) == Condition(str_name, "is", IntToStr(n))
        F(and_operation, or_operation, not_operation) ==
            Filter(and_operation, or_operation, not_operation)
    IN  {F(and_operation, or_operation, not_operation) :
            and_operation \in
                {<<>>, <<c(1)>>, <<c(1), F(<<c(2)>>, <<c(3)>>, <<c(4)>>), c(5)>>,
                 <<F(<<>>, <<F(<<>>, <<>>, <<c(2)>>)>>, <<>>), c(5)>>},
            or_operation \in
                {<<>>, <<c(6)>>, <<c(6), F(<<>>, <<c(7)>>, <<>>)>>,
                 <<F(<<>>, <<>>, <<>>), c(6), c(6)>>},
            not_operation \in
                {<<>>, <<c(8)>>, <<F(<<>>, <<>>, <<c(8)>>), c(9)>>,
                 <<F(<<c(8)>>, <<>>, <<>>), F(<<c(8)>>, <<>>, <<>>), c(9)>>}}

FlattenCalls ==
    {[fn |-> "flatten_filter_conditions", filter_obj |-> Validated(f)] :
        f \in NumberedFilters}

\* flatten_filter_conditions(filter_obj)
CallFlatten ==
    /\ pc = "idle"
    /\ probe.fn = "flatten_filter_conditions"
    /\ pc' = "called"
    /\ probe' = [fn |-> probe.fn, filter_obj |-> probe.filter_obj,
                 conditions |-> flatten_filter_conditions(probe.filter_obj)]
    /\ UNCHANGED <<settings, nrows, request, response, errors, queried, stack>>

\* paths of one to three segments, and paths with an empty segment, a
\* segment that starts with a digit or a character no identifier has
CheckedPaths ==
    SelectedPaths
    \cup FirstSegments
    \cup {str_id, str_1d, <<>>, sep, sep \o str_name, str_name \o sep,
          Name.site \o sep, Name.site \o sep \o sep \o str_name,
          Name.site \o sep \o str_name \o sep, Name.site \o <<"_">> \o str_name,
          Name.site \o sep \o <<"1">>, Name.site \o <<" ">>,
          Name.site \o <<"_", "_", "_">> \o str_name, <<"_">>,
          str_name_x, Name.site \o sep \o str_name_x}

\* error lists a call may find: empty, or with entries of earlier calls
EarlierErrors ==
    {<<>>,
     << Error(<< <<"field">> >>, "Field syntax is incorrect", str_1d, <<>>,
              "syntax_error") >>,
     << Error(<< <<"field">> >>, "Field does not exist in model", str_job,
              Name.Host, "value_error"),
        Error(<< <<"filter_fields">>, str_name >>, "Operation is not allowed for field",
              str_name, <<"gt">>, "operation_not_allowed") >>}

FieldCalls ==
    {[fn |-> "_validate_field", model |-> "core.Host", field |-> path,
      errors |-> errs] : path \in CheckedPaths, errs \in EarlierErrors}

\* self._validate_field(model, field, errors): what it returns and the list
\* afterwards; syntax is what is_valid_lookup_syntax(field) returned
CallValidateField ==
    /\ pc = "idle"
    /\ probe.fn = "_validate_field"
    /\ pc' = "called"
    /\ LET Called(got) ==
                [fn |-> probe.fn, model |-> probe.model, field |-> probe.field,
                 errors |-> probe.errors,
                 syntax |-> is_valid_lookup_syntax(probe.field),
                 returned |-> got.ok, errors_after |-> got.errors]
       IN  probe' = Called(_validate_field(probe.model, probe.field, probe.errors))
    /\ UNCHANGED <<settings, nrows, request, response, errors, queried, stack>>

InitCalls ==
    /\ InitWith({DEFAULT_PAGE_SIZE}, {MaxRows})
    /\ probe \in ConditionCalls \cup FlattenCalls \cup FieldCalls

NextCalls == CallCondition \/ CallFlatten \/ CallValidateField

SpecCalls == InitCalls /\ [][NextCalls]_vars

----------------------------------------------------------------------------
(* Properties of the served request                                         *)

Responded == pc = "responded"

Count(seq, Test(_)) == Cardinality({i \in DOMAIN seq : Test(seq[i])})

\* the model the request names, in the app it names
RequestModel ==
    get_model(IF "app_label" \in request.keys /\ request.app_label # <<>>
              THEN request.app_label ELSE settings.DEFAULT_APP_LABEL,
              request.model)

\* every required key is there, the model resolves, the page is at least 1
\* and every operation tag is one of allowed_ops
WellFormed ==
    /\ {"model", "select_fields", "page"} \subseteq request.keys
    /\ model_exists(request.model) # <<>>
    /\ RequestModel.raised = ""
    /\ request.page >= 1
    /\ request.filter_fields.kind = "Filter" => ~HasInvalidOp(request.filter_fields)

\* the Conditions of the request, flattened
RequestConditions ==
    IF request.filter_fields.kind = "Filter"
    THEN flatten_filter_conditions(Validated(request.filter_fields))
    ELSE <<>>

\* validation ended by returning or by raising ValidationError
ValidationEnded == response.raised \notin {"FieldDoesNotExist", "LookupError"}

OperationNotAllowed(cond) ==
    Error(<< <<"filter_fields">>, cond.field >>, "Operation is not allowed for field",
          cond.field, <<cond.op>>, "operation_not_allowed")

\* C2: a condition on a path that traverses relations and resolves is
\* validated to the end, and its operation is judged by the type of the
\* field the path ends at: one OperationNotAllowed error when the operation
\* is not allowed for that type, none otherwise.
C2_RelationPathOperationChecked ==
    (Responded /\ WellFormed) =>
        \A i \in DOMAIN RequestConditions :
            LET cond == RequestConditions[i]
                leaf == LeafField(RequestModel.model, cond.field)
                IsItsError(e) == e = OperationNotAllowed(cond)
            IN  (/\ Contains(cond.field, sep)
                 /\ _validate_field(RequestModel.model, cond.field, <<>>).ok)
                => /\ ValidationEnded
                   /\ Count(response.errors, IsItsError)
                        = IF cond.op \in Range(get_allowed_operations(leaf.cls))
                          THEN 0 ELSE 1

\* the paths of a model that go through one of its relation fields
RelationPaths(model) ==
    {f.name \o sep \o g.name :
        f \in {h \in FieldsOf(model) : h.related_model # "" /\ ~IsReverse(h.cls)},
        g \in UNION {FieldsOf(m) : m \in ModelIds}}
    \cap {path \in {f.name \o sep \o g.name :
                        f \in FieldsOf(model),
                        g \in UNION {FieldsOf(m) : m \in ModelIds}} :
            validate_field_path(model, path, <<>>).ok}

\* C3: a selected path that is no field but is a relation path written with
\* a single underscore gets exactly one error, a FieldNotFound that suggests
\* the relation path.
C3_TypoSuggestsRelationPath ==
    (Responded /\ WellFormed /\ ValidationEnded) =>
        \A i \in DOMAIN request.select_fields :
            LET path == request.select_fields[i]
                Quotes(e) == e.msg.arg1 = path
                Same(p) == p = path
                SameField(c) == c.field = path
            IN  \A right \in RelationPaths(RequestModel.model) :
                    (/\ Replace(right, sep, <<"_">>) = path
                     /\ \A f \in FieldsOf(RequestModel.model) : f.name # path)
                    => /\ Count(response.errors, Quotes)
                            = Count(request.select_fields, Same)
                              + Count(RequestConditions, SameField)
                       /\ \A j \in DOMAIN response.errors :
                            Quotes(response.errors[j]) =>
                                /\ response.errors[j].msg.text
                                        = "Field does not exist. Did you mean?"
                                /\ response.errors[j].msg.arg2 = right

HasError(loc) == \E i \in DOMAIN response.errors : response.errors[i].loc = loc

\* C5: the response to a request lists an error for every defect of the
\* request: the unknown model, the page below 1, the unsupported operation
\* tag, and (when the model resolves) each invalid select path.
C5_EveryDefectReported ==
    (Responded /\ {"model", "select_fields", "page"} \subseteq request.keys) =>
        /\ model_exists(request.model) = <<>> => HasError(<< <<"model">> >>)
        /\ request.page < 1 => HasError(<< <<"page">> >>)
        /\ (request.filter_fields.kind = "Filter"
                /\ HasInvalidOp(request.filter_fields))
            => HasError(<< <<"operation_type">> >>)
        /\ (model_exists(request.model) # <<>> /\ RequestModel.raised = "")
            => \A i \in DOMAIN request.select_fields :
                  ~_validate_field(RequestModel.model, request.select_fields[i], <<>>).ok
                  => \E j \in DOMAIN response.errors :
                        response.errors[j].msg.arg1 = request.select_fields[i]

\* the errors the request calls for: one for each invalid select path, then
\* for each condition the error of its path or, when the path is valid and
\* the operation is not allowed for the field it ends at, one
\* OperationNotAllowed
RECURSIVE SelectErrors(_, _)
SelectErrors(model, paths) ==
    IF paths = <<>> THEN <<>>
    ELSE _validate_field(model, Head(paths), <<>>).errors
            \o SelectErrors(model, Tail(paths))

RECURSIVE ConditionErrors(_, _)
ConditionErrors(model, conds) ==
    IF conds = <<>> THEN <<>>
    ELSE LET cond == Head(conds)
             path == _validate_field(model, cond.field, <<>>)
             leaf == LeafField(model, cond.field)
         IN  (IF ~path.ok THEN path.errors
              ELSE IF cond.op \in Range(get_allowed_operations(leaf.cls)) THEN <<>>
              ELSE <<OperationNotAllowed(cond)>>)
             \o ConditionErrors(model, Tail(conds))

ExpectedErrors ==
    SelectErrors(RequestModel.model, request.select_fields)
        \o ConditionErrors(RequestModel.model, RequestConditions)

\* C6: for a well-formed request validate_fields collects the errors of the
\* select paths, in order, then those of the conditions, in flattened order,
\* and the request is rejected exactly when that list is not empty.
C6_SelectThenFilterErrors ==
    (Responded /\ WellFormed) =>
        /\ ValidationEnded
        /\ errors = ExpectedErrors
        /\ response.status = 400 <=> ExpectedErrors # <<>>
        /\ response.status = 400 => response.errors = ExpectedErrors

\* a condition whose path traverses a relation and resolves
HasRelationCondition ==
    \E i \in DOMAIN RequestConditions :
        /\ Contains(RequestConditions[i].field, sep)
        /\ _validate_field(RequestModel.model, RequestConditions[i].field, <<>>).ok

\* the statement of C6 for the requests that have no such condition
C6_WithoutRelationConditions ==
    (Responded /\ WellFormed /\ ~HasRelationCondition) =>
        /\ ValidationEnded
        /\ errors = ExpectedErrors
        /\ response.status = 400 <=> ExpectedErrors # <<>>
        /\ response.status = 400 => response.errors = ExpectedErrors

\* C7: a request that produced a validation error, or lacks a required
\* input, never reaches the data store: no query is run, no rows are
\* returned and the response is not a result.
C7_RejectedRequestNeverQueries ==
    (Responded /\ (errors # <<>> \/ response.errors # <<>>)) =>
        /\ queried = 0
        /\ response.data = <<>>
        /\ response.status # 200

\* a request on a table with rows is rejected for the errors collected
C7_Witness ==
    /\ Responded
    /\ errors # <<>>
    /\ response.status = 400
    /\ WellFormed
    /\ TableRows(RequestModel.model) # {}

\* C4: for every field type and every operation tag a Condition may carry,
\* check_attribute_operation accepts the tag for a field of that type exactly
\* when the tag is in the list get_allowed_operations returns for the type,
\* subtypes of table entries included.
C4_ValidatorAcceptsPublishedOps ==
    (pc = "probed" /\ probe.op \in Range(allowed_ops)) =>
        (probe.accepted <=> probe.op \in Range(probe.allowed))

\* a tag is accepted for a type that is in neither table itself, only a
\* subtype of an entry
C4_Witness ==
    /\ pc = "probed"
    /\ probe.op \in Range(allowed_ops)
    /\ probe.accepted
    /\ \A i \in DOMAIN CheckedFieldOps : CheckedFieldOps[i][1] # probe.cls
    /\ \A i \in DOMAIN AllowedFieldOps : AllowedFieldOps[i][1] # probe.cls

\* a row satisfies a Condition when it satisfies the lookup the Condition
\* compiles to, and a Filter node when it satisfies every child of the AND
\* group, at least one child of the OR group if there is one, and no child
\* of the NOT group
RECURSIVE Satisfies(_, _, _)
Satisfies(model, row, node) ==
    IF node.kind = "Condition" THEN Holds(model, row, condition_to_q(node))
    ELSE /\ \A i \in DOMAIN node.and_operation :
                Satisfies(model, row, node.and_operation[i])
         /\ node.or_operation # <<>> =>
                \E i \in DOMAIN node.or_operation :
                    Satisfies(model, row, node.or_operation[i])
         /\ \A i \in DOMAIN node.not_operation :
                ~Satisfies(model, row, node.not_operation[i])

\* the primary keys of the rows returned
ReturnedIds == {response.data[1].results[i][str_id] : i \in DOMAIN response.data[1].results}

\* C1: the rows a filter returns are the rows that satisfy every child of
\* its AND group, at least one child of its OR group and no child of its NOT
\* group, at every Filter node.
C1_OrGroupConjoined ==
    (Responded /\ response.status = 200 /\ request.filter_fields.kind = "Filter") =>
        ReturnedIds =
            {row[str_id] : row \in
                {r \in TableRows(RequestModel.model) :
                    Satisfies(RequestModel.model, r, Validated(request.filter_fields))}}

\* the number of rows the request of SpecPage selects: the whole table
TableCount == Cardinality(TableRows(RequestModel.model))

\* C8: a result reports total_pages = ceil(count / page_size), which is 0
\* for an empty result; page 1 of an empty result is served, with no rows
\* and next = previous = null.
C8_TotalPagesIsCeiling ==
    /\ (Responded /\ response.status = 200) =>
            response.data[1].total_pages
                = Ceil(response.data[1].count, response.data[1].page_size)
    /\ (Responded /\ WellFormed /\ TableCount = 0 /\ request.page = 1) =>
            /\ response.status = 200
            /\ response.data[1].results = <<>>
            /\ response.data[1].next = Null
            /\ response.data[1].previous = Null

\* C9: a result for page p has next = p + 1 when p < total_pages and null
\* otherwise, previous = p - 1 when p > 1 and null otherwise, and page = p;
\* with 250 rows and pages of 100, page 1 has previous = null and next = 2,
\* page 3 has next = null and previous = 2.
C9_NextAndPrevious ==
    (Responded /\ response.status = 200) =>
        LET data == response.data[1]
            p == request.page
        IN  /\ data.page = p
            /\ data.next = IF p < data.total_pages THEN Some(p + 1) ELSE Null
            /\ data.previous = IF p > 1 THEN Some(p - 1) ELSE Null
            /\ (data.count = 250 /\ data.page_size = 100 /\ p = 1) =>
                    data.previous = Null /\ data.next = Some(2)
            /\ (data.count = 250 /\ data.page_size = 100 /\ p = 3) =>
                    data.next = Null /\ data.previous = Some(2)

\* page 3 of 250 rows in pages of 100 is served
C9_Witness ==
    /\ Responded
    /\ response.status = 200
    /\ request.page = 3
    /\ response.data[1].count = 250
    /\ response.data[1].page_size = 100
    /\ response.data[1].next = Null
    /\ response.data[1].previous = Some(2)

\* C10: a valid request for a page beyond the last page of a non-empty
\* result is answered with a structured error, as a validation error is,
\* and with no rows.
C10_PageOutOfRangeReported ==
    (/\ Responded
     /\ WellFormed
     /\ TableCount > 0
     /\ request.page > Ceil(TableCount, settings.PAGE_SIZE)) =>
        /\ response.status = 400
        /\ response.raised = ""
        /\ response.errors # <<>>
        /\ response.data = <<>>

\* the primary keys of the rows of the table that the filter of the request
\* selects, ascending
MatchingIds ==
    LET ids == {row[str_id].v : row \in
                    {r \in TableRows(RequestModel.model) :
                        request.filter_fields.kind = "Filter" =>
                            Satisfies(RequestModel.model, r,
                                      Validated(request.filter_fields))}}
    IN  [i \in 1..Cardinality(ids) |->
            CHOOSE k \in ids : Cardinality({j \in ids : j < k}) = i - 1]

\* the primary keys of the rows of a served page, in the order returned
PageIds(results) == [i \in DOMAIN results |-> results[i][str_id].v]

\* the pages 1..n of the request, one after the other
RECURSIVE PagesUpTo(_)
PagesUpTo(n) ==
    IF n = 0 THEN <<>>
    ELSE PagesUpTo(n - 1)
         \o PageIds(QueryPost([request EXCEPT !.page = n]).response.data[1].results)

----------------------------------------------------------------------------
(* Properties of the described model                                        *)

MaxHops == 2           \* longest select path compared with all_lookups

\* a description was returned
Described200 == pc = "responded" /\ response.status = 200 /\ stack # <<>>

\* the number of relation separators of a path
Hops(path) == Cardinality(Occurrences(path, sep))

\* the names of fields chained along related models, at most h separators
RECURSIVE Chains(_, _)
Chains(model, h) ==
    {f.name : f \in FieldsOf(model)}
    \cup IF h = 0 THEN {}
         ELSE UNION {{f.name \o sep \o rest : rest \in Chains(f.related_model, h - 1)} :
                        f \in {g \in FieldsOf(model) : g.related_model # ""}}

\* the paths of at most h separators that a query may select
AcceptedPaths(model, h) ==
    {path \in Chains(model, h) : _validate_field(model, path, <<>>).ok}

\* C12: every path of at most max_depth relation hops that the validator
\* accepts as a select field of the described model is in all_lookups.
C12_AcceptedPathsAreListed ==
    Described200 =>
        AcceptedPaths(stack[1].model,
                      IF stack[1].max_depth < MaxHops THEN stack[1].max_depth
                      ELSE MaxHops)
            \subseteq Range(response.data[1].all_lookups)

\* the paths of the returned descriptors
DescriptorNames ==
    {response.data[1].fields[i].name : i \in DOMAIN response.data[1].fields}

\* the names of the fields of a model that the walk lists
ListedFieldNames(model) == {f.name : f \in {g \in FieldsOf(model) : ~g.auto_created}}

\* C13: no path of fields or all_lookups has more than max_depth relation
\* separators, and with max_depth = 0 the paths are the root model's own
\* fields.
C13_PathsWithinMaxDepth ==
    Described200 =>
        /\ \A path \in Range(response.data[1].all_lookups) \cup DescriptorNames :
                Hops(path) <= stack[1].max_depth
        /\ stack[1].max_depth = 0 =>
                Range(response.data[1].all_lookups) = ListedFieldNames(stack[1].model)

\* a description at depth 2 lists paths of one and of two hops
C13_Witness ==
    /\ Described200
    /\ stack[1].max_depth = 2
    /\ \E path \in DescriptorNames : Hops(path) = 1
    /\ \E path \in Range(response.data[1].all_lookups) : Hops(path) = 2

\* the calls in progress that went past the visited check
Expanded == {k \in DOMAIN stack : stack[k].i >= 1}

\* on every branch of the walk the expanded models differ and the depth of
\* each call is its position, within max_depth and the number of models
BranchBounded ==
    /\ \A k, l \in Expanded : stack[k].model = stack[l].model => k = l
    /\ \A k \in DOMAIN stack :
            /\ stack[k].current_depth = k - 1
            /\ stack[k].current_depth <= stack[k].max_depth
            /\ stack[k].current_depth <= Cardinality(ModelIds)

\* C14: the description of a model always ends, whatever cycles the schema
\* has and however large max_depth is; no model is expanded twice on one
\* branch, and the recursion is never deeper than max_depth or than the
\* number of models.
C14_WalkTerminates ==
    /\ []BranchBounded
    /\ (pc = "received") ~> (pc = "responded")

\* the walk of Host, whose relations lead back to Host, ended with a depth
\* setting above the number of models, after going three relations deep
C14_Witness ==
    /\ Described200
    /\ stack[1].model = "core.Host"
    /\ stack[1].max_depth > Cardinality(ModelIds)
    /\ Name.parent \in Range(response.data[1].all_lookups)
    /\ Name.site \o sep \o Name.owner \in Range(response.data[1].all_lookups)
    /\ \E path \in Range(response.data[1].all_lookups) : Hops(path) = 3

\* the paths listed below a prefix, without the prefix
Below(prefix) ==
    {SubSeq(path, Len(prefix) + 3, Len(path)) :
        path \in {p \in Range(response.data[1].all_lookups) :
                        StartsWith(p, prefix \o sep)}}

\* the relation fields of a model that the walk follows
FollowedRelations(model) ==
    {f \in FieldsOf(model) : ~f.auto_created /\ IsForwardRelation(f.cls)}

\* C15: while a model is described, the visited set of each call holds the
\* models expanded on its own branch and nothing that a finished sibling
\* call added; so in the description two relations of the root to one
\* other model both list that model's fields, and the same paths below.
C15_SiblingBranchesIndependent ==
    /\ \A k \in DOMAIN stack :
            stack[k].visited_models = {stack[j].model : j \in {l \in Expanded : l <= k}}
    /\ (Described200 /\ stack[1].max_depth >= 1) =>
            \A r1, r2 \in FollowedRelations(stack[1].model) :
                (r1.related_model = r2.related_model
                 /\ r1.related_model # stack[1].model)
                => /\ ListedFieldNames(r1.related_model) \subseteq Below(r1.name)
                   /\ Below(r1.name) = Below(r2.name)

\* Host is described with its two relations to Site, site first and spare
\* after it, and the fields of Site are under both
C15_Witness ==
    /\ Described200
    /\ stack[1].model = "core.Host"
    /\ stack[1].max_depth = 2
    /\ Name.site \o sep \o str_name \in Range(response.data[1].all_lookups)
    /\ Name.spare \o sep \o str_name \in Range(response.data[1].all_lookups)
    /\ Name.spare \o sep \o Name.region \o sep \o str_name
            \in Range(response.data[1].all_lookups)

\* code point order of two strings, equal ones included
StrLessEq(a, b) == a = b \/ StrLess(a, b)

\* C16: all_lookups is in ascending lexicographic order without a repeated
\* path, its paths are exactly the names of the returned descriptors, and
\* no two descriptors have the same name.
C16_LookupsSortedUniqueComplete ==
    Described200 =>
        LET data == response.data[1]
        IN  /\ \A i, j \in DOMAIN data.all_lookups :
                    i < j => StrLess(data.all_lookups[i], data.all_lookups[j])
            /\ Range(data.all_lookups) = DescriptorNames
            /\ Len(data.all_lookups) = Len(data.fields)
            /\ \A i, j \in DOMAIN data.fields :
                    data.fields[i].name = data.fields[j].name => i = j

\* a description whose paths were collected in another order than the
\* sorted one, a nested path before a later direct field
C16_Witness ==
    /\ Described200
    /\ stack[1].all_lookups # response.data[1].all_lookups
    /\ Len(response.data[1].all_lookups) > 10
    /\ \E path \in DescriptorNames : Hops(path) = 2

\* the relation paths of a description below which fields are listed
ExpandedRelations ==
    {path \in DescriptorNames : Below(path) # {}}

\* C17: a description leaves out the reverse relations and nothing else:
\* every other field of the described model is listed, its primary key id
\* too, and below every expanded relation the key of the related model.
C17_OnlyReverseRelationsExcluded ==
    Described200 =>
        /\ {f.name : f \in {g \in FieldsOf(stack[1].model) : ~IsReverse(g.cls)}}
                = {path \in DescriptorNames : Hops(path) = 0}
        /\ str_id \in Range(response.data[1].all_lookups)
        /\ \A path \in ExpandedRelations :
                path \o sep \o str_id \in Range(response.data[1].all_lookups)

\* the tag type_mapping gives the class itself, where it has one
OwnTypeTag(cls) ==
    LET hits == {i \in DOMAIN type_mapping : cls = type_mapping[i][1]}
    IN  IF hits = {} THEN <<>> ELSE <<type_mapping[Min(hits)][2]>>

\* C18: the type of every descriptor is the tag of the field's own type,
\* where the tags name it (bigint, smallint, positiveint, email, url, slug,
\* datetime, onetoone, image, ...), never the tag of a type it derives from.
C18_TypeIsOwnTag ==
    Described200 =>
        \A i \in DOMAIN response.data[1].fields :
            LET d == response.data[1].fields[i]
                own == OwnTypeTag(LeafField(stack[1].model, d.name).cls)
            IN  own # <<>> => d.type = own[1]

\* C19: a descriptor of type unknown has no allowed operations, and
\* check_attribute_operation accepts no operation tag for its field.
C19_UnknownTypeAllowsNothing ==
    Described200 =>
        \A i \in DOMAIN response.data[1].fields :
            LET d == response.data[1].fields[i]
            IN  d.type = "unknown" =>
                    /\ d.allowed_operations = <<>>
                    /\ \A op \in Range(allowed_ops) :
                            ~OperationAllowed(LeafField(stack[1].model, d.name).cls, op)

----------------------------------------------------------------------------
(* Properties of the selected path                                          *)

\* what the resolution of a path ends with when the relations in `through`
\* may be traversed: "" when it resolves, or the error "FieldNotFound" or
\* "NotARelation" of the first segment that stops it
RECURSIVE PathOutcome(_, _, _)
PathOutcome(model, path, through) ==
    LET first == IF Contains(path, sep) THEN SplitOnce(path, sep)[1] ELSE path
        named == {f \in FieldsOf(model) : f.name = first}
    IN  IF named = {} THEN "FieldNotFound"
        ELSE IF ~Contains(path, sep) THEN ""
        ELSE IF (CHOOSE f \in named : TRUE).cls \notin through THEN "NotARelation"
        ELSE PathOutcome((CHOOSE f \in named : TRUE).related_model,
                         SplitOnce(path, sep)[2], through)

\* the kind of a path error, by its message
ErrorKind(e) ==
    IF e.msg.text = "Field is not a relation field in model" THEN "NotARelation"
    ELSE IF e.msg.text \in {"Field does not exist in model",
                             "Field does not exist. Did you mean?"}
    THEN "FieldNotFound"
    ELSE "Other"

\* the response to the selected path is what the outcome asks for: the
\* page when the path resolves, else 400 with the one error of that kind
AnsweredAs(outcome) ==
    IF outcome = ""
    THEN response.status = 200
    ELSE /\ response.status = 400
         /\ Len(response.errors) = 1
         /\ ErrorKind(response.errors[1]) = outcome

\* C20, as stated: only ForeignKey and ManyToManyField segments are
\* traversed; a path through a one-to-one field, any other field or a
\* reverse relation is rejected with NotARelation, and a path whose segment
\* names no field with FieldNotFound.
C20_OneToOneNotTraversable ==
    (Responded /\ Len(request.select_fields) = 1
        /\ Contains(request.select_fields[1], sep)) =>
        AnsweredAs(PathOutcome(RequestModel.model, request.select_fields[1],
                               {"ForeignKey", "ManyToManyField"}))

\* C20, amended: ForeignKey, OneToOneField (a ForeignKey) and
\* ManyToManyField segments are traversed; a path through any other field
\* or a reverse relation is rejected with NotARelation, and a path whose
\* segment names no field with FieldNotFound.
C20_ForwardRelationsTraversable ==
    (Responded /\ Len(request.select_fields) = 1
        /\ Contains(request.select_fields[1], sep)) =>
        AnsweredAs(PathOutcome(RequestModel.model, request.select_fields[1],
                               {"ForeignKey", "OneToOneField", "ManyToManyField"}))

\* a path through the one-to-one field profile of Host is served
C20_Witness ==
    /\ Responded
    /\ response.status = 200
    /\ request.select_fields = <<Name.profile \o sep \o Name.url>>

----------------------------------------------------------------------------
(* Properties of single calls                                               *)

\* C21: the value of a Condition is True for "true" and "True", False for
\* "false" and "False", and the given string for every other string,
\* whatever field the Condition names; the Q object compiled from the
\* Condition compares with that value.
C21_ValueNormalization ==
    (pc = "called" /\ probe.fn = "Condition" /\ probe.raised = "") =>
        /\ probe.cond.value =
                IF probe.value \in {<<"t", "r", "u", "e">>, <<"T", "r", "u", "e">>}
                THEN [t |-> "bool", v |-> TRUE]
                ELSE IF probe.value \in {<<"f", "a", "l", "s", "e">>,
                                         <<"F", "a", "l", "s", "e">>}
                THEN [t |-> "bool", v |-> FALSE]
                ELSE [t |-> "str", v |-> probe.value]
        /\ probe.cond.field = probe.field
        /\ Cardinality(Keywords(probe.q)) = 1
        /\ \A kw \in Keywords(probe.q) : kw.value = probe.cond.value

\* "True" on an integer field became the boolean, in the Condition and in
\* the Q object
C21_Witness ==
    /\ pc = "called"
    /\ probe.fn = "Condition"
    /\ probe.raised = ""
    /\ probe.field = str_backup_size
    /\ probe.value = str_True
    /\ probe.cond.value = BoolV(TRUE)
    /\ \E kw \in Keywords(probe.q) : kw.value = BoolV(TRUE)

----------------------------------------------------------------------------
(* Properties of compiled filters                                           *)

\* a Filter none of whose groups has an item
IsEmptyFilter(f) ==
    /\ f.kind = "Filter"
    /\ f.and_operation = <<>> /\ f.or_operation = <<>> /\ f.not_operation = <<>>

----------------------------------------------------------------------------
(* Properties of model resolution                                           *)

\* C23: a request whose only defect is a model name that does not resolve
\* under the requested app label is answered 400 with an error located at
\* model; no exception leaves the view.
C23_UnresolvedModelReported ==
    (/\ Responded
     /\ {"model", "select_fields", "page"} \subseteq request.keys
     /\ request.page >= 1
     /\ request.filter_fields.kind = "Filter" => ~HasInvalidOp(request.filter_fields)
     /\ RequestModel.raised # "")
    => /\ response.raised = ""
       /\ response.status = 400
       /\ HasError(<< <<"model">> >>)

----------------------------------------------------------------------------
(* Properties of condition validation                                       *)

HasEmptyFilter(items) == \E i \in DOMAIN items : IsEmptyFilter(items[i])

\* C25: a nested Filter without items stands for the predicate that holds
\* for every row: a query with one in its NOT group returns no row, and a
\* query that has only an OR group, with one in it, returns every row.
C25_EmptyNestedFilterCompiled ==
    (Responded /\ response.status = 200 /\ request.filter_fields.kind = "Filter") =>
        /\ HasEmptyFilter(request.filter_fields.not_operation) => ReturnedIds = {}
        /\ (/\ HasEmptyFilter(request.filter_fields.or_operation)
            /\ request.filter_fields.and_operation = <<>>
            /\ request.filter_fields.not_operation = <<>>)
           => ReturnedIds = {row[str_id] : row \in TableRows(RequestModel.model)}

----------------------------------------------------------------------------
(* Properties of flatten_filter_conditions                                  *)

\* how often a Condition is a leaf of a Filter tree
RECURSIVE LeavesEqual(_, _)
LeavesEqual(node, cond) ==
    IF node.kind = "Condition" THEN (IF node = cond THEN 1 ELSE 0)
    ELSE LET RECURSIVE Sum(_)
             Sum(items) == IF items = <<>> THEN 0
                           ELSE LeavesEqual(Head(items), cond) + Sum(Tail(items))
         IN  Sum(node.and_operation) + Sum(node.or_operation)
                + Sum(node.not_operation)

\* the number of Condition leaves of a Filter tree
RECURSIVE Leaves(_)
Leaves(node) ==
    IF node.kind = "Condition" THEN 1
    ELSE LET RECURSIVE Sum(_)
             Sum(items) == IF items = <<>> THEN 0
                           ELSE Leaves(Head(items)) + Sum(Tail(items))
         IN  Sum(node.and_operation) + Sum(node.or_operation)
                + Sum(node.not_operation)

\* C26: the list flatten_filter_conditions returns has one entry for each
\* Condition leaf of the tree, each leaf as often as it occurs, and the
\* entries are in the order AND group, OR group, NOT group at every level
\* with the conditions of a nested Filter in the place of the Filter (the
\* order in which the trees number their conditions).
C26_FlattenPreOrder ==
    (pc = "called" /\ probe.fn = "flatten_filter_conditions") =>
        /\ Len(probe.conditions) = Leaves(probe.filter_obj)
        /\ \A i \in DOMAIN probe.conditions :
                LET Same(c) == c = probe.conditions[i]
                IN  /\ probe.conditions[i].kind = "Condition"
                    /\ Count(probe.conditions, Same)
                            = LeavesEqual(probe.filter_obj, probe.conditions[i])
        /\ \A i, j \in DOMAIN probe.conditions :
                i < j => ToInt(probe.conditions[i].value.v)
                            <= ToInt(probe.conditions[j].value.v)

\* a tree with nested Filters in all three groups, one of them before a
\* condition of its group, and a condition that occurs twice
C26_Witness ==
    /\ pc = "called"
    /\ probe.fn = "flatten_filter_conditions"
    /\ Len(probe.conditions) = 10
    /\ \E i \in DOMAIN probe.conditions : probe.conditions[i] = probe.conditions[i + 1]
    /\ probe.filter_obj.and_operation[2].kind = "Filter"
    /\ probe.filter_obj.not_operation[1].kind = "Filter"

----------------------------------------------------------------------------
(* Properties of the field path check                                       *)

\* C27: a call of _validate_field returns True and leaves the errors list
\* as it was, or returns False and leaves it with exactly one more entry at
\* its end; the entries it found are still there, unchanged.
C27_OneErrorOrNone ==
    (pc = "called" /\ probe.fn = "_validate_field") =>
        /\ SubSeq(probe.errors_after, 1, Len(probe.errors)) = probe.errors
        /\ Len(probe.errors_after) = Len(probe.errors) + (IF probe.returned THEN 0 ELSE 1)

\* a path of three segments failed at its last segment and its error came
\* after the two entries that were in the list
C27_Witness ==
    /\ pc = "called"
    /\ probe.fn = "_validate_field"
    /\ probe.field = Name.site \o sep \o Name.owner \o sep \o Name.zone
    /\ Len(probe.errors) = 2
    /\ ~probe.returned
    /\ Len(probe.errors_after) = 3
    /\ probe.errors_after[3].msg.arg1 = Name.zone

\* ---------------------------------------------------------------------
\* Properties of the syntax check
\* ---------------------------------------------------------------------

\* field_path.split('__') of the whole path
RECURSIVE SplitAll(_)
SplitAll(s) ==
    IF Occurrences(s, sep) = {}
    THEN <<s>>
    ELSE <<SplitOnce(s, sep)[1]>> \o SplitAll(SplitOnce(s, sep)[2])

HasEmptySegment(s) ==
    \E i \in 1..Len(SplitAll(s)) : SplitAll(s)[i] = <<>>

\* C28: every path the syntax check accepts splits on '__' into non-empty
\* identifier segments, and a path with an empty segment ('name__',
\* 'a____b') is rejected with a SyntaxError before path resolution.
C28_AcceptedPathsHaveIdentifierSegments ==
    (pc = "called" /\ probe.fn = "_validate_field") =>
        /\ probe.syntax =>
              \A i \in 1..Len(SplitAll(probe.field)) : Segment(SplitAll(probe.field)[i])
        /\ HasEmptySegment(probe.field) =>
              /\ ~probe.returned
              /\ probe.errors_after[Len(probe.errors_after)].type = "syntax_error"

\* ---------------------------------------------------------------------
\* Properties of the suggestion
\* ---------------------------------------------------------------------

\* the model on which the last segment of a path is looked up
RECURSIVE ModelReached(_, _)
ModelReached(model, field_path) ==
    IF ~Contains(field_path, sep)
    THEN model
    ELSE ModelReached(get_field(model, SplitOnce(field_path, sep)[1]).field.related_model,
                      SplitOnce(field_path, sep)[2])

Suggests(error) == error.msg.text = "Field does not exist. Did you mean?"

\* C29: whenever the field-not-found error carries a suggestion, the
\* suggested path passes the syntax check and path resolution on the model
\* the error was raised for.
C29_SuggestedPathIsValid ==
    (pc = "called" /\ probe.fn = "_validate_field" /\ ~probe.returned) =>
        LET error == probe.errors_after[Len(probe.errors_after)]
        IN  Suggests(error) =>
                _validate_field(ModelReached(probe.model, probe.field),
                                error.msg.arg2, <<>>).ok

\* ---------------------------------------------------------------------
\* Properties of all_lookups as select fields
\* ---------------------------------------------------------------------

\* C30: every path listed in all_lookups of a description passes the
\* select-field check of the described model: the syntax check and the path
\* resolution accept it and report no error.
C30_LookupsAreSelectable ==
    Described200 =>
        \A path \in Range(response.data[1].all_lookups) :
            _validate_field(stack[1].model, path, <<>>) = [ok |-> TRUE, errors |-> <<>>]

C30_Witness ==
    /\ Described200
    /\ \E path \in Range(response.data[1].all_lookups) :
          /\ Hops(path) = 2
          /\ _validate_field(stack[1].model, path, <<>>).ok
    /\ \E path \in Range(response.data[1].all_lookups) :
          /\ Hops(path) = 0
          /\ _validate_field(stack[1].model, path, <<>>).ok

========================================================================
